---- MODULE Spec2Model ----
(***************************************************************************)
(* Query translation engine of the GraphQL-to-Cypher library:              *)
(*   - the where-predicate builder (createWherePredicate and               *)
(*     createNestedPredicate),                                             *)
(*   - the aggregation operation of the query AST (AggregationOperation),  *)
(*   - the nested create visitor (UnwindCreateVisitor),                    *)
(*   - the connect-or-create statement (createConnectOrCreateAndParams).   *)
(* Each component has its own specification over the shared variables.     *)
(***************************************************************************)
EXTENDS Integers, Sequences, FiniteSets, TLC

VARIABLES
    pc,             \* which component runs and how far it is
    whereInput,     \* GraphQLWhereArg handed to createWherePredicate
    whereResult,    \* PredicateReturn of createWherePredicate
    edgeWhere,      \* value of `<relationship>Aggregate: {edge: ...}` in a where input
    edgeResult,     \* its translation: subqueries, predicate, parameters
    createTree,     \* the create AST the visitor is given
    siblings,       \* number of inputs under each relationship field of the payload
    environment,    \* UnwindCreateVisitor.environment: node id -> scope definition
    stack,          \* the visit calls in progress, innermost last
    nextVar,        \* number of Cypher variables allocated so far
    rootNode,       \* UnwindCreateVisitor.rootNode
    clause,         \* UnwindCreateVisitor.clause
    parked,         \* the visitor of the other translation while this one runs
    connectInput,   \* arguments of createConnectOrCreateAndParams, rows and rule outcomes
    statement,      \* the clause createConnectOrCreateAndParams returns
    db,             \* nodes and relationships stored in the database
    execution,      \* the run of `statement`: position, bound node, result
    readInput,      \* stored rows, JWT claims and limit directive of a read
    operation,      \* the AggregationOperation: fields, filters, authFilters, pagination
    transpiled,     \* what AggregationOperation.transpile returned
    readResult,     \* outcome of running the transpiled subqueries
    relationshipFields, \* the relationship fields createRelationshipFields has to do
    schemaComposer, \* the input types composed so far: type name -> field names
    document,       \* the directive occurrences the validation visitor is called on
    directivesVisited, \* how many of them the visitor has been called on
    reported        \* the errors handed to context.reportError

whereVars == <<whereInput, whereResult>>
edgeVars == <<edgeWhere, edgeResult>>
createVars == <<createTree, siblings, environment, stack, nextVar, rootNode, clause, parked>>
connectVars == <<connectInput, statement, db, execution>>
readVars == <<readInput, operation, transpiled, readResult>>
schemaVars == <<relationshipFields, schemaComposer, document, directivesVisited, reported>>
vars == <<pc, whereVars, edgeVars, createVars, connectVars, readVars, schemaVars>>

(***************************************************************************)
(* Bounds of the model.                                                    *)
(***************************************************************************)
\* Total weight (entries plus list members) of a where input.
MaxWeight == 5

(***************************************************************************)
(* Statement builder: predicates.  A predicate is a record                 *)
(* [op, key, args]; `Undefined` is JavaScript's undefined.                 *)
(***************************************************************************)
Undefined == [op |-> "undefined", key |-> "", args |-> <<>>]

Leaf(k) == [op |-> "leaf", key |-> k, args |-> <<>>]

BinaryOp(o, ps) == [op |-> o, key |-> "", args |-> ps]

CypherNot(p) == [op |-> "not", key |-> "", args |-> <<p>>]

\* filterTruthy: drops the undefined members, keeps the order.
RECURSIVE filterTruthy(_)
filterTruthy(ps) ==
    IF ps = <<>> THEN <<>>
    ELSE IF Head(ps) = Undefined THEN filterTruthy(Tail(ps))
    ELSE <<Head(ps)>> \o filterTruthy(Tail(ps))

\* Cypher.and(...ps): undefined for no predicate, the predicate itself for
\* one, a single AND over all of them otherwise.
CypherAnd(ps) ==
    LET f == filterTruthy(ps)
    IN  IF f = <<>> THEN Undefined
        ELSE IF Len(f) = 1 THEN f[1]
        ELSE BinaryOp("and", f)

\* Cypher.or(...ps): as Cypher.and, with OR.
CypherOr(ps) ==
    LET f == filterTruthy(ps)
    IN  IF f = <<>> THEN Undefined
        ELSE IF Len(f) = 1 THEN f[1]
        ELSE BinaryOp("or", f)

(***************************************************************************)
(* Where inputs.  A where input is the sequence Object.entries gives: each *)
(* entry is [key, list]; `list` holds the member filters of AND/OR, the    *)
(* single nested filter of NOT, and is empty for a leaf comparator.        *)
(***************************************************************************)
LeafKeys == {"content", "likesAggregate"}

\* Comparators on the edge property of the aggregate filter.
EdgeLeafKeys == {"someFloat_EQUAL", "someFloat_GT"}

Entry(k, l) == [key |-> k, list |-> l]

Keys(f) == {f[i].key : i \in 1..Len(f)}

\* WhereTable(n)[w + 1] holds, for each weight w <= n, the where inputs
\* (filters) and the member lists (lists) of weight exactly w.  An entry
\* counts 1, a list member counts 1 plus its own weight.
RECURSIVE WhereTable(_, _)
WhereTable(leafKeys, n) ==
    IF n = 0 THEN <<[filters |-> {<<>>}, lists |-> {<<>>}]>>
    ELSE LET t == WhereTable(leafKeys, n - 1)
             F(w) == t[w + 1].filters
             L(w) == t[w + 1].lists
             \* entries of weight exactly k
             E(k) == (IF k = 1 THEN {Entry(lk, <<>>) : lk \in leafKeys} ELSE {})
                     \cup {Entry(op, l) : op \in {"AND", "OR"}, l \in L(k - 1)}
                     \cup (IF k >= 2 THEN {Entry("NOT", <<f>>) : f \in F(k - 2)} ELSE {})
         IN  Append(t,
                [filters |->
                    UNION {{<<p[1]>> \o p[2] :
                               p \in {q \in E(k) \X F(n - k) : q[1].key \notin Keys(q[2])}}
                           : k \in 1..n},
                 lists |->
                    UNION {{<<p[1]>> \o p[2] : p \in F(j - 1) \X L(n - j)} : j \in 1..n}])

FiltersOver(leafKeys) ==
    LET t == WhereTable(leafKeys, MaxWeight)
    IN  UNION {t[w + 1].filters : w \in 0..MaxWeight}

WhereInputs == FiltersOver(LeafKeys)

(***************************************************************************)
(* Predicate builder.                                                      *)
(***************************************************************************)
PredicateReturn(p, s, r, a) ==
    [predicate |-> p, preComputedSubqueries |-> s,
     requiredVariables |-> r, aggregatingVariables |-> a]

isWhereOperator(key) == key \in {"OR", "AND"}

\* The comparator of one field: a leaf predicate; an aggregate comparison
\* also needs a variable and a precomputed subquery.
createPropertyWhere(key, list) ==
    IF key = "likesAggregate"
    THEN PredicateReturn(Leaf(key), <<"sq_likes">>, <<"v_likes">>, <<"agg_likes">>)
    ELSE PredicateReturn(Leaf(key), <<>>, <<>>, <<>>)

\* Mutant: OR lists combined with AND.
nestedConnectiveAlwaysAnd(key, nested) == CypherAnd(nested)

\* The connective createNestedPredicate applies to its members' predicates.
nestedConnective(key, nested) ==
    IF key = "OR" THEN CypherOr(nested) ELSE CypherAnd(nested)

RECURSIVE createWherePredicate(_), nestedLoop(_, _)

\* value.forEach of createNestedPredicate, from state `acc`
\* [nested, subqueries, requiredVariables, aggregatingVariables].
nestedLoop(value, acc) ==
    IF value = <<>> THEN acc
    ELSE LET inner == createWherePredicate(Head(value))
         IN  nestedLoop(Tail(value),
                [nested |-> IF inner.predicate # Undefined
                            THEN Append(acc.nested, inner.predicate)
                            ELSE acc.nested,
                 subqueries |-> acc.subqueries \o inner.preComputedSubqueries,
                 requiredVariables |-> acc.requiredVariables \o inner.requiredVariables,
                 aggregatingVariables |->
                     acc.aggregatingVariables \o inner.aggregatingVariables])

\* requiredVariables is the caller's array: the members' variables are pushed
\* onto it and the same array is returned.
createNestedPredicate(key, value, requiredVariables) ==
    LET out == nestedLoop(value, [nested |-> <<>>, subqueries |-> <<>>,
                                  requiredVariables |-> requiredVariables,
                                  aggregatingVariables |-> <<>>])
    IN  PredicateReturn(nestedConnective(key, out.nested), out.subqueries,
                        out.requiredVariables, out.aggregatingVariables)

\* Mutant: the results of a logical operator are taken whether or not it
\* yields a predicate.
whereStepUnguarded(entry, acc) ==
    IF isWhereOperator(entry.key)
    THEN LET r == createNestedPredicate(entry.key, entry.list, acc.requiredVariables)
         IN  [predicates |-> Append(acc.predicates, r.predicate),
              subqueries |-> acc.subqueries \o r.preComputedSubqueries,
              requiredVariables |-> r.requiredVariables \o r.requiredVariables,
              aggregatingVariables |->
                  acc.aggregatingVariables \o r.aggregatingVariables]
    ELSE LET r == createPropertyWhere(entry.key, entry.list)
         IN  [predicates |-> Append(acc.predicates, r.predicate),
              subqueries |-> acc.subqueries \o r.preComputedSubqueries,
              requiredVariables |-> acc.requiredVariables \o r.requiredVariables,
              aggregatingVariables |->
                  acc.aggregatingVariables \o r.aggregatingVariables]

\* One iteration of whereFields.forEach, from state `acc`
\* [predicates, subqueries, requiredVariables, aggregatingVariables].
whereStep(entry, acc) ==
    IF isWhereOperator(entry.key)
    THEN LET r == createNestedPredicate(entry.key, entry.list, acc.requiredVariables)
         IN  IF r.predicate # Undefined
             THEN [predicates |-> Append(acc.predicates, r.predicate),
                   subqueries |-> acc.subqueries \o r.preComputedSubqueries,
                   \* the returned array is the local one: it is pushed onto itself
                   requiredVariables |-> r.requiredVariables \o r.requiredVariables,
                   aggregatingVariables |->
                       acc.aggregatingVariables \o r.aggregatingVariables]
             ELSE [acc EXCEPT !.requiredVariables = r.requiredVariables]
    ELSE LET r == createPropertyWhere(entry.key, entry.list)
         IN  IF r.predicate # Undefined
             THEN [predicates |-> Append(acc.predicates, r.predicate),
                   subqueries |-> acc.subqueries \o r.preComputedSubqueries,
                   requiredVariables |-> acc.requiredVariables \o r.requiredVariables,
                   aggregatingVariables |->
                       acc.aggregatingVariables \o r.aggregatingVariables]
             ELSE acc

RECURSIVE whereLoop(_, _)
whereLoop(whereFields, acc) ==
    IF whereFields = <<>> THEN acc
    ELSE whereLoop(Tail(whereFields), whereStep(Head(whereFields), acc))

createWherePredicate(whereInputArg) ==
    LET out == whereLoop(whereInputArg, [predicates |-> <<>>, subqueries |-> <<>>,
                                         requiredVariables |-> <<>>,
                                         aggregatingVariables |-> <<>>])
    IN  PredicateReturn(CypherAnd(out.predicates), out.subqueries,
                        out.requiredVariables, out.aggregatingVariables)

NoResult == PredicateReturn(Undefined, <<>>, <<>>, <<>>)

(***************************************************************************)
(* Specification of the predicate builder.                                 *)
(***************************************************************************)
NoEdgeResult == [subqueries |-> <<>>, predicate |-> <<>>, params |-> <<>>]

\* Values of the variables of the components that do not run.
IdleWhere == whereInput = <<>> /\ whereResult = NoResult
IdleEdge == edgeWhere = <<>> /\ edgeResult = NoEdgeResult
IdleCreate ==
    /\ createTree = <<>>
    /\ siblings = 0
    /\ environment = <<>>
    /\ stack = <<>>
    /\ nextVar = 0
    /\ rootNode = -1
    /\ clause = <<>>
    /\ parked = <<>>
IdleConnect ==
    /\ connectInput = <<>>
    /\ statement = <<>>
    /\ db = {}
    /\ execution = <<>>
IdleRead ==
    /\ readInput = <<>>
    /\ operation = <<>>
    /\ transpiled = <<>>
    /\ readResult = <<>>
IdleSchema ==
    /\ relationshipFields = <<>>
    /\ schemaComposer = <<>>
    /\ document = <<>>
    /\ directivesVisited = 0
    /\ reported = <<>>

InitWhere ==
    /\ pc = "where_input"
    /\ whereInput \in WhereInputs
    /\ whereResult = NoResult
    /\ IdleEdge
    /\ IdleCreate
    /\ IdleConnect
    /\ IdleRead
    /\ IdleSchema

CallCreateWherePredicate ==
    /\ pc = "where_input"
    /\ whereResult' = createWherePredicate(whereInput)
    /\ pc' = "where_done"
    /\ UNCHANGED <<whereInput, edgeVars, createVars, connectVars, readVars, schemaVars>>

NextWhere == CallCreateWherePredicate

SpecWhere == InitWhere /\ [][NextWhere]_vars

(***************************************************************************)
(* Aggregate edge filter: `<relationship>Aggregate: {edge: tree}` compiles *)
(* to one subquery over the relationship pattern that returns a boolean,   *)
(* and to the predicate `<returned variable> = true`.                      *)
(***************************************************************************)
\* The literal each comparator is given.
LeafValue(key) == IF key = "someFloat_EQUAL" THEN 10 ELSE 11

\* any(var IN collect(this0.someFloat) WHERE var <comparator> $param)
AnyTest(k, v, p) == [op |-> "any", key |-> k, var |-> v, param |-> p, args |-> <<>>]

Logical(o, as) == [op |-> o, key |-> "", var |-> 0, param |-> 0, args |-> as]

\* Mutant: every connective rendered as OR.
getLogicalPredicateAlwaysOr(key, ps) ==
    IF Len(ps) = 1 /\ key # "NOT" THEN ps[1]
    ELSE IF key = "NOT" THEN Logical("not", <<IF Len(ps) = 1 THEN ps[1] ELSE Logical("or", ps)>>)
    ELSE Logical("or", ps)

\* AND and OR over one predicate are that predicate; NOT negates the
\* conjunction of its children.
getLogicalPredicate(key, ps) ==
    LET conj == IF Len(ps) = 1 THEN ps[1] ELSE Logical("and", ps)
        disj == IF Len(ps) = 1 THEN ps[1] ELSE Logical("or", ps)
    IN  CASE key = "NOT" -> Logical("not", <<conj>>)
          [] key = "OR" -> disj
          [] OTHER -> conj

RECURSIVE aggregateWhere(_, _), aggregateList(_, _, _)

\* One entry of the tree, from naming state st = [var, params]: the next
\* variable number and the parameters bound so far.
aggregateEntry(e, st) ==
    IF e.key \in {"AND", "OR", "NOT"}
    THEN LET r == aggregateList(e.list, st, <<>>)
         IN  [expr |-> getLogicalPredicate(e.key, r.exprs), st |-> r.st]
    ELSE [expr |-> AnyTest(e.key, st.var, Len(st.params)),
          st |-> [var |-> st.var + 1, params |-> Append(st.params, LeafValue(e.key))]]

RECURSIVE aggregateEntries(_, _, _)
aggregateEntries(f, st, acc) ==
    IF f = <<>> THEN [exprs |-> acc, st |-> st]
    ELSE LET r == aggregateEntry(Head(f), st)
         IN  aggregateEntries(Tail(f), r.st, Append(acc, r.expr))

\* The entries of one object are conjoined.
aggregateWhere(f, st) ==
    LET r == aggregateEntries(f, st, <<>>)
    IN  [expr |-> getLogicalPredicate("AND", r.exprs), st |-> r.st]

aggregateList(v, st, acc) ==
    IF v = <<>> THEN [exprs |-> acc, st |-> st]
    ELSE LET r == aggregateWhere(Head(v), st)
         IN  aggregateList(Tail(v), r.st, Append(acc, r.expr))

\* this0 is the relationship and this1 the related node, so the first
\* comparison variable is var2 and the parameters start at param0.
FirstEdgeVar == 2

RelationshipPattern == "(this)<-[this0:LIKES]-(this1:User)"

aggregateEdgeWhere(tree) ==
    LET r == aggregateWhere(tree, [var |-> FirstEdgeVar, params |-> <<>>])
    IN  [subqueries |-> <<[match |-> RelationshipPattern,
                           returnExpr |-> r.expr,
                           returnVar |-> r.st.var]>>,
         predicate |-> <<r.st.var, "=", TRUE>>,
         params |-> r.st.params]

\* A logical tree over leaf comparisons: no empty object and no empty list.
RECURSIVE WellFormedTree(_)
WellFormedTree(f) ==
    /\ f # <<>>
    /\ \A i \in 1..Len(f) :
        f[i].key \in {"AND", "OR", "NOT"} =>
            /\ f[i].list # <<>>
            /\ \A j \in 1..Len(f[i].list) : WellFormedTree(f[i].list[j])

EdgeWhereInputs == {f \in FiltersOver(EdgeLeafKeys) : WellFormedTree(f)}

InitEdge ==
    /\ pc = "edge_input"
    /\ edgeWhere \in EdgeWhereInputs
    /\ edgeResult = NoEdgeResult
    /\ IdleWhere
    /\ IdleCreate
    /\ IdleConnect
    /\ IdleRead
    /\ IdleSchema

TranslateEdgeWhere ==
    /\ pc = "edge_input"
    /\ edgeResult' = aggregateEdgeWhere(edgeWhere)
    /\ pc' = "edge_done"
    /\ UNCHANGED <<edgeWhere, whereVars, createVars, connectVars, readVars, schemaVars>>

NextEdge == TranslateEdgeWhere

SpecEdge == InitEdge /\ [][NextEdge]_vars

(***************************************************************************)
(* Entity model handed to the create visitor: nodes, relationship          *)
(* properties and relationship fields, with the flags the visitor reads.   *)
(***************************************************************************)
Field(fieldName, dbPropertyName, kind, typeName, array, timestamps, autogenerate, auth) ==
    [fieldName |-> fieldName, dbPropertyName |-> dbPropertyName, kind |-> kind,
     typeName |-> typeName, array |-> array, timestamps |-> timestamps,
     autogenerate |-> autogenerate, auth |-> auth]

\* auth: "none" (no rule declared), "empty" (rules declared, none for the
\* operation: createAuthAndParams returns no cypher), "rule".
Elements ==
    [Movie |->
        [name |-> "Movie", auth |-> "rule", validation |-> TRUE,
         fields |-> <<
            Field("id", "id", "primitive", "ID", FALSE, {}, TRUE, "none"),
            Field("title", "title", "primitive", "String", FALSE, {}, FALSE, "rule"),
            Field("tagline", "tag_line", "primitive", "String", FALSE, {}, FALSE, "rule"),
            Field("createdAt", "createdAt", "temporal", "DateTime", FALSE, {"CREATE"}, FALSE, "none"),
            Field("updatedAt", "updatedAt", "temporal", "DateTime", FALSE, {"UPDATE"}, FALSE, "none"),
            Field("location", "location", "point", "Point", FALSE, {}, FALSE, "none")>>],
     Actor |->
        [name |-> "Actor", auth |-> "none", validation |-> TRUE,
         fields |-> <<
            Field("name", "name", "primitive", "String", FALSE, {}, FALSE, "empty"),
            Field("born", "born", "temporal", "Date", FALSE, {"CREATE"}, FALSE, "none"),
            Field("spots", "spots", "point", "Point", TRUE, {}, FALSE, "none")>>],
     Studio |->
        [name |-> "Studio", auth |-> "empty", validation |-> FALSE,
         fields |-> <<
            Field("name", "name", "primitive", "String", FALSE, {}, FALSE, "none"),
            Field("openedAt", "openedAt", "temporal", "Time", FALSE, {"CREATE"}, FALSE, "none")>>],
     ActedIn |->
        [name |-> "ActedIn", auth |-> "none", validation |-> FALSE,
         fields |-> <<
            Field("roles", "roles", "primitive", "String", FALSE, {}, FALSE, "none"),
            Field("since", "since", "temporal", "DateTime", FALSE, {"CREATE"}, FALSE, "none"),
            Field("token", "token", "primitive", "ID", FALSE, {}, TRUE, "none")>>]]

temporalFields(element) == SelectSeq(Elements[element].fields, LAMBDA f : f.kind = "temporal")
primitiveFields(element) == SelectSeq(Elements[element].fields, LAMBDA f : f.kind = "primitive")
pointFields(element) == SelectSeq(Elements[element].fields, LAMBDA f : f.kind = "point")

\* Relationship fields: owner, target, type, direction, properties ("" when
\* the relationship carries none).
RelationFields ==
    [actors |-> [fieldName |-> "actors", owner |-> "Movie", target |-> "Actor",
                 type |-> "ACTED_IN", direction |-> "IN", properties |-> "ActedIn"],
     movies |-> [fieldName |-> "movies", owner |-> "Actor", target |-> "Movie",
                 type |-> "ACTED_IN", direction |-> "OUT", properties |-> "ActedIn"],
     studio |-> [fieldName |-> "studio", owner |-> "Movie", target |-> "Studio",
                 type |-> "PRODUCED_BY", direction |-> "OUT", properties |-> ""],
     films |-> [fieldName |-> "films", owner |-> "Studio", target |-> "Movie",
                type |-> "PRODUCED_BY", direction |-> "IN", properties |-> ""]]

RelFieldsOf(element) == {f \in DOMAIN RelationFields : RelationFields[f].owner = element}

\* The property lists a create input gives a node of each type.
NodePropertiesOf(element) ==
    CASE element = "Movie" -> {<<"title">>, <<"id", "title", "tagline">>,
                               <<"createdAt", "location">>}
      [] element = "Actor" -> {<<"name">>, <<"name", "spots">>}
      [] OTHER -> {<<>>, <<"name">>}

EdgePropertiesOf(field) ==
    IF field # "" /\ RelationFields[field].properties # ""
    THEN {<<>>, <<"roles">>}
    ELSE {<<>>}

(***************************************************************************)
(* Create trees (GraphQLInputAST): a Create root with NestedCreate         *)
(* descendants, one per relationship field of its parent.  The id of a     *)
(* node is its path from the root.                                         *)
(***************************************************************************)
\* Number of NestedCreate nodes of a tree.
MaxNested == 2

\* Number of sibling inputs under one relationship field.
MaxSiblings == 2

RECURSIVE ASTNodes(_, _, _, _), ChildLists(_, _, _, _)
\* Nodes of `element` reached through `field`, with exactly n descendants.
ASTNodes(element, field, n, path) ==
    LET cls == ChildLists(element, n, {}, path)
    IN  {[id |-> path, node |-> element, relationshipPropertyPath |-> field,
          nodeProperties |-> np, edgeProperties |-> ep, children |-> cl]
         : np \in NodePropertiesOf(element), ep \in EdgePropertiesOf(field), cl \in cls}

\* Child lists of a node of `element` with n nodes in all, over the
\* relationship fields not in `used`.
ChildLists(element, n, used, path) ==
    IF n = 0 THEN {<<>>}
    ELSE UNION {UNION {LET cs == ASTNodes(RelationFields[f].target, f, k - 1,
                                          Append(path, Cardinality(used) + 1))
                           rs == ChildLists(element, n - k, used \cup {f}, path)
                       IN  {<<c>> \o r : c \in cs, r \in rs}
                       : k \in 1..n}
                : f \in RelFieldsOf(element) \ used}

CreateTrees ==
    UNION {ASTNodes(e, "", n, <<>>) : e \in {"Movie", "Actor", "Studio"}, n \in 0..MaxNested}

(***************************************************************************)
(* Statement builder: expressions and clauses.  A Cypher variable is the   *)
(* number of its allocation; a composite clause is the sequence of its     *)
(* clauses.                                                                *)
(***************************************************************************)
Var(v) == [kind |-> "var", var |-> v]
Property(v, path) == [kind |-> "property", var |-> v, path |-> path]
Function(name, args) == [kind |-> "function", name |-> name, args |-> args]
ListComprehension(v, list, mapExpr) ==
    [kind |-> "listComprehension", var |-> v, list |-> list, map |-> mapExpr]

NoAlias == -1
WithItem(expr, alias) == [expr |-> expr, alias |-> alias]
With(items) == [type |-> "With", items |-> items]
WithStar == [type |-> "With", items |-> <<WithItem([kind |-> "star"], NoAlias)>>]
Unwind(expr, alias) == [type |-> "Unwind", expr |-> expr, alias |-> alias]
Create(nodeRef, labels, setParams) ==
    [type |-> "Create", node |-> nodeRef, labels |-> labels, set |-> setParams]
\* Mutant: the relationship is merged the other way round.
MergeReversed(relRef, relType, source, target, setParams) ==
    [type |-> "Merge", rel |-> relRef, relType |-> relType,
     source |-> target, target |-> source, set |-> setParams]

Merge(relRef, relType, source, target, setParams) ==
    [type |-> "Merge", rel |-> relRef, relType |-> relType,
     source |-> source, target |-> target, set |-> setParams]
Return(items) == [type |-> "Return", items |-> items]
Call(body, innerWith) == [type |-> "Call", body |-> body, innerWith |-> innerWith]
\* RawCypher: `lines` is what its callback renders, `params` what it binds.
RawCypher(lines, params) == [type |-> "RawCypher", lines |-> lines, params |-> params]
Validate(predicate, message) ==
    [type |-> "Validate", predicate |-> predicate, message |-> message]
RelationshipValidation(v) == [type |-> "RelationshipValidation", node |-> v]
NoClause == [type |-> "undefined"]

AUTH_FORBIDDEN_ERROR == "Forbidden"

\* filterTruthy on clauses.
RECURSIVE truthyClauses(_)
truthyClauses(cs) ==
    IF cs = <<>> THEN <<>>
    ELSE IF Head(cs) = NoClause THEN truthyClauses(Tail(cs))
    ELSE <<Head(cs)>> \o truthyClauses(Tail(cs))

(***************************************************************************)
(* UnwindCreateVisitor: helpers.                                           *)
(***************************************************************************)
\* The fields of an element with the given name (at most one).
FieldsNamed(fields, key) == SelectSeq(fields, LAMBDA f : f.fieldName = key)

mapToDbProperty(element, key) ==
    LET found == FieldsNamed(Elements[element].fields, key)
    IN  IF found = <<>> THEN key ELSE found[1].dbPropertyName

\* Returns the SetParam and the next free variable: a list of points
\* allocates the variable of its list comprehension.
fieldToSetParam(element, cypherNodeRef, key, value, next) ==
    LET pointField == FieldsNamed(pointFields(element), key)
        dbName == mapToDbProperty(element, key)
        target == Property(cypherNodeRef, <<dbName>>)
    IN  IF pointField # <<>>
        THEN IF pointField[1].array
             THEN [param |-> [target |-> target,
                              value |-> ListComprehension(next, value,
                                            Function("point", <<Var(next)>>))],
                   next |-> next + 1]
             ELSE [param |-> [target |-> target, value |-> Function("point", <<value>>)],
                   next |-> next]
        ELSE [param |-> [target |-> target, value |-> value], next |-> next]

\* properties.map((property) => fieldToSetParam(..., valueVar.property(property)))
RECURSIVE mapFieldToSetParam(_, _, _, _, _)
mapFieldToSetParam(element, cypherNodeRef, properties, valueVar, next) ==
    IF properties = <<>> THEN [params |-> <<>>, next |-> next]
    ELSE LET one == fieldToSetParam(element, cypherNodeRef, Head(properties),
                                    Property(valueVar, <<Head(properties)>>), next)
             rest == mapFieldToSetParam(element, cypherNodeRef, Tail(properties),
                                        valueVar, one.next)
         IN  [params |-> <<one.param>> \o rest.params, next |-> rest.next]

toLowerCase(typeName) == IF typeName = "DateTime" THEN "datetime" ELSE "time"

\* Mutant: autogenerated fields of the node are never set.
getAutoGeneratedFieldsNone(element, cypherNodeRef) == <<>>

getAutoGeneratedFields(element, cypherNodeRef) ==
    LET timestampedFields ==
            SelectSeq(temporalFields(element),
                      LAMBDA x : x.typeName \in {"DateTime", "Time"}
                                 /\ "CREATE" \in x.timestamps)
        autogeneratedIdFields ==
            SelectSeq(primitiveFields(element), LAMBDA x : x.autogenerate)
    IN  [i \in 1..Len(timestampedFields) |->
            [target |-> Property(cypherNodeRef, <<timestampedFields[i].dbPropertyName>>),
             value |-> Function(toLowerCase(timestampedFields[i].typeName), <<>>)]]
        \o [i \in 1..Len(autogeneratedIdFields) |->
            [target |-> Property(cypherNodeRef, <<autogeneratedIdFields[i].dbPropertyName>>),
             value |-> Function("randomUUID", <<>>)]]

\* createAuthAndParams for the CREATE operation: the rule of an entity (a
\* node or a field) bound to a variable, and the parameter it references;
\* no cypher when the entity declares no rule for the operation.
createAuthAndParams(auth, entity, varName) ==
    IF auth = "rule"
    THEN [cypher |-> <<[kind |-> "rule", entity |-> entity, var |-> varName]>>,
          params |-> {entity}]
    ELSE [cypher |-> <<>>, params |-> {}]

NotExpr(x) == [kind |-> "not", args |-> <<x>>]
AndExpr(xs) == IF Len(xs) = 1 THEN xs[1] ELSE [kind |-> "and", args |-> xs]
OrExpr(xs) == [kind |-> "or", args |-> xs]
IsNull(x) == [kind |-> "isNull", args |-> <<x>>]

\* Mutant: no node-level authorization clause.
getAuthNodeClauseNone(element, nodeRef) == NoClause

getAuthNodeClause(element, nodeRef) ==
    IF Elements[element].auth # "none"
    THEN LET a == createAuthAndParams(Elements[element].auth, element, nodeRef)
         IN  IF a.cypher # <<>>
             THEN RawCypher(<<WithStar,
                              Validate(NotExpr(a.cypher[1]), AUTH_FORBIDDEN_ERROR)>>,
                            a.params)
             ELSE RawCypher(<<>>, {})
    ELSE NoClause

\* fieldsPredicates.reduce((prev, next) => ({...prev[1], ...next[1]}), {}):
\* prev is the object built so far, which has no property 1.
RECURSIVE reduceParams(_, _)
reduceParams(fieldsPredicates, prev) ==
    IF fieldsPredicates = <<>> THEN prev
    ELSE reduceParams(Tail(fieldsPredicates), {} \cup Head(fieldsPredicates).params)

getAuthFieldClause(astNode, nodeRef, unwindVar) ==
    LET authFields == SelectSeq(primitiveFields(astNode.node), LAMBDA f : f.auth # "none")
        \* nodeProperties.flatMap: field names are unique, so at most one each
        used(i) == FieldsNamed(authFields, astNode.nodeProperties[i])
        RECURSIVE flat(_)
        flat(i) == IF i > Len(astNode.nodeProperties) THEN <<>>
                   ELSE used(i) \o flat(i + 1)
        usedAuthFields == flat(1)
        withCypher == SelectSeq(usedAuthFields, LAMBDA f : f.auth = "rule")
        fieldsPredicates ==
            [i \in 1..Len(withCypher) |->
                LET a == createAuthAndParams(withCypher[i].auth,
                                             withCypher[i].fieldName, nodeRef)
                IN  [cypher |-> OrExpr(<<IsNull(Property(unwindVar, <<withCypher[i].fieldName>>)),
                                         a.cypher[1]>>),
                     params |-> a.params]]
    IN  IF usedAuthFields # <<>>
        THEN IF fieldsPredicates # <<>>
             THEN RawCypher(
                    <<WithStar,
                      Validate(NotExpr(AndExpr([i \in 1..Len(fieldsPredicates) |->
                                                   fieldsPredicates[i].cypher])),
                               AUTH_FORBIDDEN_ERROR)>>,
                    reduceParams(fieldsPredicates, {}))
             ELSE RawCypher(<<>>, {})
        ELSE NoClause

\* createRelationshipValidationString: a check when the node has
\* relationship fields with a required cardinality.
relationshipValidationClause(element, currentNode) ==
    IF Elements[element].validation
    THEN RawCypher(<<With(<<WithItem(Var(currentNode), NoAlias)>>),
                     RelationshipValidation(currentNode)>>, {})
    ELSE RawCypher(<<>>, {})

(***************************************************************************)
(* UnwindCreateVisitor: the visit.  A frame of `stack` is a call of        *)
(* visitCreate or visitNestedCreate that is in visitChildren: its AST      *)
(* node, the variables it has allocated and the child it visits next.      *)
(***************************************************************************)
\* The variable the constructor is given (the top-level UNWIND variable).
RootUnwindVar == 0
NoVar == -1

Frame(ast, parentVar, unwindVar, createUnwindVar, currentNode, nodeVar, edgeVar) ==
    [ast |-> ast, parentVar |-> parentVar, unwindVar |-> unwindVar,
     createUnwindVar |-> createUnwindVar, currentNode |-> currentNode,
     nodeVar |-> nodeVar, edgeVar |-> edgeVar, child |-> 1]

\* childrenRefs.map((childrenRef) => this.environment[childrenRef].clause),
\* spread into Cypher.concat.
\* Mutant: the clauses of the children are taken last child first.
RECURSIVE nestedClausesOfReversed(_, _)
nestedClausesOfReversed(children, env) ==
    IF children = <<>> THEN <<>>
    ELSE nestedClausesOfReversed(Tail(children), env) \o env[Head(children).id].clause

RECURSIVE nestedClausesOf(_, _)
nestedClausesOf(children, env) ==
    IF children = <<>> THEN <<>>
    ELSE env[Head(children).id].clause \o nestedClausesOf(Tail(children), env)

\* The clause visitCreate builds once its children are visited, and the
\* next free variable.
createClauseOf(f, env, next) ==
    LET create == f.ast
        currentNode == f.currentNode
        nestedClauses == nestedClausesOf(create.children, env)
        setProperties == mapFieldToSetParam(create.node, currentNode,
                                            create.nodeProperties, RootUnwindVar, next)
        autogeneratedProperties == getAutoGeneratedFields(create.node, currentNode)
        createClause == Create(currentNode, <<create.node>>,
                               setProperties.params \o autogeneratedProperties)
        authNodeClause == getAuthNodeClause(create.node, currentNode)
        authFieldsClause == getAuthFieldClause(create, currentNode, RootUnwindVar)
    IN  [clause |->
            <<Call(truthyClauses(<<createClause>> \o nestedClauses
                       \o <<authNodeClause, authFieldsClause,
                            relationshipValidationClause(create.node, currentNode),
                            Return(<<WithItem(Var(currentNode), NoAlias)>>)>>),
                   <<RootUnwindVar>>)>>,
         next |-> setProperties.next]

\* Mutant: one subquery per sibling input instead of one UNWIND.
subqueryPerSibling(outsideWith, subQuery) ==
    LET RECURSIVE rep(_)
        rep(n) == IF n = 0 THEN <<>> ELSE <<outsideWith, Call(subQuery, <<>>)>> \o rep(n - 1)
    IN  rep(siblings)

\* Mutant: the variable of the UNWIND is carried on after the subquery.
subqueryCallLeaking(outsideWith, subQuery) ==
    <<outsideWith, Call(subQuery, <<>>),
      With(outsideWith.items \o <<WithItem(Var(subQuery[2].alias), NoAlias)>>)>>

\* Cypher.concat(outsideWith, new Cypher.Call(subQuery))
subqueryCall(outsideWith, subQuery) == <<outsideWith, Call(subQuery, <<>>)>>

\* The clause visitNestedCreate stores in its environment entry once its
\* children are visited, and the next free variable.
nestedCreateClauseOf(f, env, next) ==
    LET nestedCreate == f.ast
        node == nestedCreate.node
        relationField == RelationFields[nestedCreate.relationshipPropertyPath]
        edge == relationField.properties
        parentVar == f.parentVar
        unwindVar == f.unwindVar
        currentNode == f.currentNode
        blockWith == With(<<WithItem(Var(parentVar), NoAlias), WithItem(Var(unwindVar), NoAlias)>>)
        createUnwindClause ==
            Unwind(Property(unwindVar, <<nestedCreate.relationshipPropertyPath, "create">>),
                   f.createUnwindVar)
        withCreate ==
            With(<<WithItem(Property(f.createUnwindVar, <<"node">>), f.nodeVar),
                   WithItem(Property(f.createUnwindVar, <<"edge">>), f.edgeVar),
                   WithItem(Var(parentVar), NoAlias)>>)
        nestedClauses == nestedClausesOf(nestedCreate.children, env)
        relationshipClause == next
        \* source: currentNode, target: parentVar; reversed for OUT
        source == IF relationField.direction = "OUT" THEN parentVar ELSE currentNode
        target == IF relationField.direction = "OUT" THEN currentNode ELSE parentVar
        setPropertiesNode == mapFieldToSetParam(node, currentNode,
                                                nestedCreate.nodeProperties, f.nodeVar, next + 1)
        autogeneratedProperties == getAutoGeneratedFields(node, currentNode)
        createClause == Create(currentNode, <<node>>,
                               setPropertiesNode.params \o autogeneratedProperties)
        hasEdgeProperties == nestedCreate.edgeProperties # <<>> /\ edge # ""
        setPropertiesEdge ==
            IF hasEdgeProperties
            THEN mapFieldToSetParam(edge, relationshipClause, nestedCreate.edgeProperties,
                                    f.edgeVar, setPropertiesNode.next)
            ELSE [params |-> <<>>, next |-> setPropertiesNode.next]
        mergeClause ==
            Merge(relationshipClause, relationField.type, source, target,
                  IF hasEdgeProperties
                  THEN setPropertiesEdge.params
                           \o getAutoGeneratedFields(edge, relationshipClause)
                  ELSE <<>>)
        authNodeClause == getAuthNodeClause(node, currentNode)
        authFieldsClause == getAuthFieldClause(nestedCreate, currentNode, f.nodeVar)
        returnVar == setPropertiesEdge.next
        subQuery ==
            truthyClauses(
                <<blockWith, createUnwindClause, withCreate, createClause, mergeClause>>
                \o nestedClauses
                \o <<authNodeClause, authFieldsClause,
                     relationshipValidationClause(node, currentNode),
                     Return(<<WithItem(Function("collect", <<[kind |-> "null"]>>),
                                       returnVar)>>)>>)
        outsideWith == With(<<WithItem(Var(parentVar), NoAlias),
                              WithItem(Var(unwindVar), NoAlias)>>)
    IN  [clause |-> subqueryCall(outsideWith, subQuery), next |-> returnVar + 1]

InitCreate ==
    /\ pc = "create_input"
    /\ createTree \in CreateTrees
    /\ siblings \in 1..MaxSiblings
    /\ environment = <<>>
    /\ stack = <<>>
    /\ nextVar = RootUnwindVar + 1
    /\ rootNode = NoVar
    /\ clause = <<>>
    /\ parked = <<>>
    /\ IdleWhere
    /\ IdleEdge
    /\ IdleConnect
    /\ IdleRead
    /\ IdleSchema

\* createTree.accept(visitor): visitCreate up to its visitChildren.
VisitCreate ==
    /\ pc = "create_input"
    /\ stack' = <<Frame(createTree, NoVar, RootUnwindVar, NoVar, nextVar, NoVar, NoVar)>>
    /\ nextVar' = nextVar + 1
    /\ pc' = "create_visiting"
    /\ UNCHANGED <<createTree, siblings, parked, environment, rootNode, clause, whereVars, edgeVars, connectVars, readVars, schemaVars>>

\* visitChildren registers the next child and accepts it: visitNestedCreate
\* reads its entry and runs up to its own visitChildren.
VisitChild ==
    /\ pc = "create_visiting"
    /\ LET f == stack[Len(stack)]
           isRoot == Len(stack) = 1
       IN  /\ f.child <= Len(f.ast.children)
           /\ LET children == f.ast.children[f.child]
                  unwindVar == IF isRoot THEN RootUnwindVar ELSE f.nodeVar
                  parentVar == f.currentNode
                  env == [id \in DOMAIN environment \cup {children.id} |->
                             IF id = children.id
                             THEN [unwindVar |-> unwindVar, parentVar |-> parentVar,
                                   clause |-> <<>>]
                             ELSE environment[id]]
              IN  /\ environment' = env
                  /\ stack' = Append(stack,
                        Frame(children, env[children.id].parentVar,
                              env[children.id].unwindVar,
                              nextVar, nextVar + 1, nextVar + 2, nextVar + 3))
                  /\ nextVar' = nextVar + 4
    /\ UNCHANGED <<pc, createTree, siblings, parked, rootNode, clause, whereVars, edgeVars, connectVars, readVars, schemaVars>>

\* visitNestedCreate from the return of its visitChildren to its end, back
\* in the parent's visitChildren.
FinishNestedCreate ==
    /\ pc = "create_visiting"
    /\ Len(stack) > 1
    /\ LET f == stack[Len(stack)]
           built == nestedCreateClauseOf(f, environment, nextVar)
       IN  /\ f.child > Len(f.ast.children)
           /\ environment' = [environment EXCEPT ![f.ast.id].clause = built.clause]
           /\ nextVar' = built.next
           /\ stack' = [SubSeq(stack, 1, Len(stack) - 1) EXCEPT
                            ![Len(stack) - 1].child = @ + 1]
    /\ UNCHANGED <<pc, createTree, siblings, parked, rootNode, clause, whereVars, edgeVars, connectVars, readVars, schemaVars>>

\* visitCreate from the return of its visitChildren to its end.
FinishCreate ==
    /\ pc = "create_visiting"
    /\ Len(stack) = 1
    /\ LET f == stack[1]
           built == createClauseOf(f, environment, nextVar)
       IN  /\ f.child > Len(f.ast.children)
           /\ rootNode' = f.currentNode
           /\ clause' = built.clause
           /\ nextVar' = built.next
    /\ stack' = <<>>
    /\ pc' = "create_done"
    /\ UNCHANGED <<createTree, siblings, parked, environment, whereVars, edgeVars, connectVars, readVars, schemaVars>>

NextCreate == VisitCreate \/ VisitChild \/ FinishNestedCreate \/ FinishCreate

SpecCreate == InitCreate /\ [][NextCreate]_vars

(***************************************************************************)
(* The visit as the recursion it is in the code: what one visitor returns  *)
(* for a tree when nothing else runs, allocating its variables from        *)
(* `next` on.                                                              *)
(***************************************************************************)
RECURSIVE visitChildren(_, _, _, _, _, _)
\* visitChildren from child i on; returns the environment and the next free
\* variable.  Each child is registered, then accepted (visitNestedCreate).
visitChildren(children, i, unwindVar, parentVar, env, next) ==
    IF i > Len(children) THEN [env |-> env, next |-> next]
    ELSE LET child == children[i]
             registered == [id \in DOMAIN env \cup {child.id} |->
                               IF id = child.id
                               THEN [unwindVar |-> unwindVar, parentVar |-> parentVar,
                                     clause |-> <<>>]
                               ELSE env[id]]
             f == Frame(child, registered[child.id].parentVar,
                        registered[child.id].unwindVar,
                        next, next + 1, next + 2, next + 3)
             below == visitChildren(child.children, 1, f.nodeVar, f.currentNode,
                                    registered, next + 4)
             built == nestedCreateClauseOf(f, below.env, below.next)
         IN  visitChildren(children, i + 1, unwindVar, parentVar,
                           [below.env EXCEPT ![child.id].clause = built.clause],
                           built.next)

\* createTree.accept(new UnwindCreateVisitor(...)): the clause and root node.
visitCreate(create, next) ==
    LET f == Frame(create, NoVar, RootUnwindVar, NoVar, next, NoVar, NoVar)
        below == visitChildren(create.children, 1, RootUnwindVar, f.currentNode,
                               <<>>, next + 1)
        built == createClauseOf(f, below.env, below.next)
    IN  [clause |-> built.clause, rootNode |-> f.currentNode]

(***************************************************************************)
(* The build of a statement by the Cypher builder: every variable gets its *)
(* name when the compilation first refers to it, numbered from 0 in the    *)
(* order of the first references.  The builder is modelled from the        *)
(* snapshots of the statements.                                            *)
(***************************************************************************)
\* Mutant: a variable is named by its identity.
buildByIdentity(clauses) == clauses

build(clauses) ==
    LET RECURSIVE exprRefs(_), exprsRefs(_), setRefs(_), itemsRefs(_), clausesRefs(_)
        \* the variables an expression refers to, in the order it prints them
        exprRefs(x) ==
            CASE x.kind = "var" -> <<x.var>>
              [] x.kind = "property" -> <<x.var>>
              [] x.kind = "rule" -> <<x.var>>
              [] x.kind = "listComprehension" ->
                     <<x.var>> \o exprRefs(x.list) \o exprRefs(x.map)
              [] x.kind \in {"function", "not", "and", "or", "isNull"} -> exprsRefs(x.args)
              [] OTHER -> <<>>
        exprsRefs(xs) ==
            IF xs = <<>> THEN <<>> ELSE exprRefs(Head(xs)) \o exprsRefs(Tail(xs))
        setRefs(ps) ==
            IF ps = <<>> THEN <<>>
            ELSE exprRefs(Head(ps).target) \o exprRefs(Head(ps).value) \o setRefs(Tail(ps))
        itemsRefs(is) ==
            IF is = <<>> THEN <<>>
            ELSE exprRefs(Head(is).expr)
                 \o (IF Head(is).alias # NoAlias THEN <<Head(is).alias>> ELSE <<>>)
                 \o itemsRefs(Tail(is))
        clausesRefs(cs) ==
            IF cs = <<>> THEN <<>>
            ELSE LET c == Head(cs)
                 IN  (CASE c.type \in {"With", "Return"} -> itemsRefs(c.items)
                        [] c.type = "Unwind" -> exprRefs(c.expr) \o <<c.alias>>
                        [] c.type = "Create" -> <<c.node>> \o setRefs(c.set)
                        [] c.type = "Merge" ->
                               <<c.source, c.rel, c.target>> \o setRefs(c.set)
                        [] c.type = "Call" -> c.innerWith \o clausesRefs(c.body)
                        [] c.type = "RawCypher" -> clausesRefs(c.lines)
                        [] c.type = "Validate" -> exprRefs(c.predicate)
                        [] c.type = "RelationshipValidation" -> <<c.node>>
                        [] OTHER -> <<>>)
                     \o clausesRefs(Tail(cs))
        refs == clausesRefs(clauses)
        \* environment.getReferenceId: the number of variables named before
        \* the first reference to this one
        name(v) ==
            LET first == CHOOSE k \in 1..Len(refs) :
                             refs[k] = v /\ \A j \in 1..(k - 1) : refs[j] # v
            IN  Cardinality({refs[j] : j \in 1..(first - 1)})
        RECURSIVE exprText(_), exprsText(_), clausesText(_)
        exprText(x) ==
            CASE x.kind \in {"var", "property", "rule"} -> [x EXCEPT !.var = name(@)]
              [] x.kind = "listComprehension" ->
                     [x EXCEPT !.var = name(@), !.list = exprText(@), !.map = exprText(@)]
              [] x.kind \in {"function", "not", "and", "or", "isNull"} ->
                     [x EXCEPT !.args = exprsText(@)]
              [] OTHER -> x
        exprsText(xs) == [i \in 1..Len(xs) |-> exprText(xs[i])]
        setText(ps) ==
            [i \in 1..Len(ps) |->
                [target |-> exprText(ps[i].target), value |-> exprText(ps[i].value)]]
        itemsText(is) ==
            [i \in 1..Len(is) |->
                [expr |-> exprText(is[i].expr),
                 alias |-> IF is[i].alias # NoAlias THEN name(is[i].alias) ELSE NoAlias]]
        clausesText(cs) ==
            [i \in 1..Len(cs) |->
                LET c == cs[i]
                IN  CASE c.type \in {"With", "Return"} -> [c EXCEPT !.items = itemsText(@)]
                      [] c.type = "Unwind" ->
                             [c EXCEPT !.expr = exprText(@), !.alias = name(@)]
                      [] c.type = "Create" ->
                             [c EXCEPT !.node = name(@), !.set = setText(@)]
                      [] c.type = "Merge" ->
                             [c EXCEPT !.source = name(@), !.rel = name(@),
                                       !.target = name(@), !.set = setText(@)]
                      [] c.type = "Call" ->
                             [c EXCEPT !.innerWith = [k \in DOMAIN @ |-> name(@[k])],
                                       !.body = clausesText(@)]
                      [] c.type = "RawCypher" -> [c EXCEPT !.lines = clausesText(@)]
                      [] c.type = "Validate" -> [c EXCEPT !.predicate = exprText(@)]
                      [] c.type = "RelationshipValidation" -> [c EXCEPT !.node = name(@)]
                      [] OTHER -> c]
    IN  clausesText(clauses)

(***************************************************************************)
(* Two translations in turn.  Each has a visitor of its own (its tree, its *)
(* environment, root node and clause, the calls it is in); the one that    *)
(* does not run is kept in `parked`.  The variables are objects of one     *)
(* heap: `nextVar` numbers the allocations of both.                        *)
(***************************************************************************)
\* The first translation has a request with two nested creates, the other
\* one the same request or one with one nested create.
InitInterleaved ==
    /\ pc = "create_input"
    /\ createTree \in {t \in ASTNodes("Studio", "", 2, <<>>) :
                          /\ t.nodeProperties = <<"name">>
                          /\ t.children[1].nodeProperties = <<"id", "title", "tagline">>}
    /\ siblings = 1
    /\ environment = <<>>
    /\ stack = <<>>
    /\ nextVar = RootUnwindVar + 1
    /\ rootNode = NoVar
    /\ clause = <<>>
    /\ \E other \in {createTree}
                     \cup {t \in ASTNodes("Actor", "", 1, <<>>) :
                              /\ t.nodeProperties = <<"name", "spots">>
                              /\ t.children[1].nodeProperties = <<"title">>} :
           parked = [pc |-> "create_input", createTree |-> other, siblings |-> 1,
                     environment |-> <<>>, stack |-> <<>>, rootNode |-> NoVar,
                     clause |-> <<>>]
    /\ IdleWhere
    /\ IdleEdge
    /\ IdleConnect
    /\ IdleRead
    /\ IdleSchema

\* Mutant: the two visitors work on one environment.
SwitchSharingEnvironment ==
    /\ parked.pc # "create_done"
    /\ parked' = [pc |-> pc, createTree |-> createTree, siblings |-> siblings,
                  environment |-> environment, stack |-> stack, rootNode |-> rootNode,
                  clause |-> clause]
    /\ pc' = parked.pc
    /\ createTree' = parked.createTree
    /\ siblings' = parked.siblings
    /\ stack' = parked.stack
    /\ rootNode' = parked.rootNode
    /\ clause' = parked.clause
    /\ UNCHANGED <<environment, nextVar, whereVars, edgeVars, connectVars, readVars,
                   schemaVars>>

\* The other translation goes on: its visitor takes the place of this one.
Switch ==
    /\ parked.pc # "create_done"
    /\ parked' = [pc |-> pc, createTree |-> createTree, siblings |-> siblings,
                  environment |-> environment, stack |-> stack, rootNode |-> rootNode,
                  clause |-> clause]
    /\ pc' = parked.pc
    /\ createTree' = parked.createTree
    /\ siblings' = parked.siblings
    /\ environment' = parked.environment
    /\ stack' = parked.stack
    /\ rootNode' = parked.rootNode
    /\ clause' = parked.clause
    /\ UNCHANGED <<nextVar, whereVars, edgeVars, connectVars, readVars, schemaVars>>

NextInterleaved == NextCreate \/ Switch

SpecInterleaved == InitInterleaved /\ [][NextInterleaved]_vars

(***************************************************************************)
(* connect-or-create: createConnectOrCreateAndParams builds one CALL with, *)
(* per input item, the authorization assertion followed by the MERGE of    *)
(* the node and the MERGE of the relationship.  A parameter object is a    *)
(* function from property names to values.                                 *)
(***************************************************************************)
\* Number of items of a connectOrCreate input.
MaxItems == 2

\* {...a, ...b}
Spread(a, b) ==
    [k \in DOMAIN a \cup DOMAIN b |-> IF k \in DOMAIN b THEN b[k] ELSE a[k]]

omitFields(obj, fields) == [k \in DOMAIN obj \ fields |-> obj[k]]

NoParams == [k \in {} |-> ""]

getCypherParameters(onCreateParams, node) ==
    [n \in {mapToDbProperty(node, k) : k \in DOMAIN onCreateParams} |->
        onCreateParams[CHOOSE k \in DOMAIN onCreateParams : mapToDbProperty(node, k) = n]]

getAutogeneratedParams(node) ==
    LET ids == SelectSeq(primitiveFields(node), LAMBDA f : f.autogenerate)
        temporal == SelectSeq(temporalFields(node),
                              LAMBDA f : f.typeName \in {"DateTime", "Time"}
                                         /\ "CREATE" \in f.timestamps)
        autogeneratedFields ==
            [n \in {ids[i].dbPropertyName : i \in 1..Len(ids)} |-> "randomUUID()"]
        autogeneratedTemporalFields ==
            [n \in {temporal[i].dbPropertyName : i \in 1..Len(temporal)} |->
                toLowerCase((CHOOSE f \in {temporal[i] : i \in 1..Len(temporal)} :
                                f.dbPropertyName = n).typeName) \o "()"]
    IN  Spread(autogeneratedTemporalFields, autogeneratedFields)

MergeNode(labels, parameters, onCreate) ==
    [type |-> "MergeNode", labels |-> labels, parameters |-> parameters,
     onCreate |-> onCreate]

mergeStatement(input, refNode, relationField, parentNode) ==
    LET whereNodeParameters == getCypherParameters(input.where, refNode)
        onCreateNodeParameters == getCypherParameters(input.onCreate, refNode)
        autogeneratedParams == getAutogeneratedParams(refNode)
        unsetAutogeneratedParams ==
            omitFields(autogeneratedParams, DOMAIN whereNodeParameters)
        autogeneratedRelationshipParams ==
            IF relationField.properties # ""
            THEN getAutogeneratedParams(relationField.properties)
            ELSE NoParams
        incoming == relationField.direction = "IN"
    IN  <<MergeNode(<<refNode>>, whereNodeParameters,
                    Spread(unsetAutogeneratedParams, onCreateNodeParameters)),
          Merge("relationship", relationField.type,
                IF incoming THEN "node" ELSE parentNode,
                IF incoming THEN parentNode ELSE "node",
                Spread(autogeneratedRelationshipParams, input.edge))>>

\* Mutant: no authorization assertion is emitted.
createAuthStatementNone(node, nodeName) == NoClause

createAuthStatement(node, nodeName) ==
    IF Elements[node].auth = "none" THEN NoClause
    ELSE LET auth == createAuthAndParams(Elements[node].auth, node, nodeName)
         IN  IF auth.cypher = <<>> THEN NoClause
             ELSE Validate(NotExpr(auth.cypher[1]), AUTH_FORBIDDEN_ERROR)

createConnectOrCreatePartialStatement(input, baseName, parentVar, relationField, refNode) ==
    LET mergeQuery == mergeStatement(input, refNode, relationField, parentVar)
        authQuery == createAuthStatement(refNode, baseName)
    IN  truthyClauses(<<authQuery>>) \o mergeQuery

\* The variable of an item is its index: `${varName}${index}`, index from 0.
RECURSIVE connectStatements(_, _, _, _, _)
connectStatements(input, index, parentVar, relationField, refNode) ==
    IF index > Len(input) THEN <<>>
    ELSE createConnectOrCreatePartialStatement(input[index], index - 1, parentVar,
                                               relationField, refNode)
         \o connectStatements(input, index + 1, parentVar, relationField, refNode)

createConnectOrCreateAndParams(input, parentVar, relationField, refNode, withVars) ==
    Call(connectStatements(input, 1, parentVar, relationField, refNode), withVars)

(***************************************************************************)
(* Inputs of connect-or-create and the run of its statement.  The          *)
(* statement runs in one transaction, once per parent row, clause by       *)
(* clause; a validate whose predicate is true raises its message and the   *)
(* transaction is rolled back.                                             *)
(***************************************************************************)
UniqueField(element) == IF element = "Movie" THEN "title" ELSE "name"

\* Per relationship field: 1..MaxItems items, each with the unique property
\* of the target in `where`; one or two parent rows; the (row, item) pairs
\* for which the rule of the target node holds.
ConnectInputs ==
    LET items(refNode) ==
            {[where |-> [f \in {UniqueField(refNode)} |-> k], onCreate |-> oc,
              edge |-> NoParams]
             : k \in {"k1", "k2"},
               oc \in IF refNode = "Movie" THEN {NoParams, [tagline |-> "t"]}
                      ELSE {NoParams}}
    IN  UNION {UNION {{[relationField |-> RelationFields[f],
                        refNode |-> RelationFields[f].target,
                        input |-> input, rows |-> rows, allowed |-> allowed]
                       : input \in [1..n -> items(RelationFields[f].target)],
                         allowed \in SUBSET ((DOMAIN rows) \X (0..(n - 1)))}
                      : n \in 1..MaxItems, rows \in {<<"p1">>, <<"p1", "p2">>}}
               : f \in DOMAIN RelationFields}

StoredNode(label, props) == [kind |-> "node", label |-> label, props |-> props]

\* Value of an authorization predicate on a row of the statement.
RECURSIVE EvalAuth(_, _, _)
EvalAuth(predicate, row, allowed) ==
    CASE predicate.kind = "rule" -> <<row, predicate.var>> \in allowed
      [] predicate.kind = "not" -> ~EvalAuth(predicate.args[1], row, allowed)

\* The stored node a MERGE of a node matches.
Matching(store, c) ==
    {n \in store : /\ n.kind = "node"
                   /\ n.label = c.labels[1]
                   /\ \A k \in DOMAIN c.parameters :
                          k \in DOMAIN n.props /\ n.props[k] = c.parameters[k]}

InitConnect ==
    /\ pc = "connect_input"
    /\ connectInput \in ConnectInputs
    /\ statement = <<>>
    /\ db \in {{}, {StoredNode(connectInput.refNode,
                               [f \in {UniqueField(connectInput.refNode)} |-> "k1"])}}
    /\ execution = <<>>
    /\ IdleWhere
    /\ IdleEdge
    /\ IdleCreate
    /\ IdleRead
    /\ IdleSchema

CreateConnectOrCreate ==
    /\ pc = "connect_input"
    /\ statement' = createConnectOrCreateAndParams(connectInput.input, "parent",
                        connectInput.relationField, connectInput.refNode, <<"parent">>)
    /\ execution' = [row |-> 1, index |-> 1, node |-> <<>>, dbBefore |-> db,
                     rows |-> <<>>, error |-> ""]
    /\ pc' = "connect_running"
    /\ UNCHANGED <<connectInput, db, whereVars, edgeVars, createVars, readVars, schemaVars>>

\* One clause of the CALL body on the current parent row.
ExecClause ==
    /\ pc = "connect_running"
    /\ execution.row <= Len(connectInput.rows)
    /\ LET c == statement.body[execution.index]
           last == execution.index = Len(statement.body)
           parent == connectInput.rows[execution.row]
           advance(e) == IF last
                         THEN [e EXCEPT !.row = @ + 1, !.index = 1,
                                        !.rows = Append(@, parent)]
                         ELSE [e EXCEPT !.index = @ + 1]
       IN  CASE c.type = "Validate" ->
                   /\ ~EvalAuth(c.predicate, execution.row, connectInput.allowed)
                   /\ execution' = advance(execution)
                   /\ db' = db
             [] c.type = "MergeNode" ->
                   LET found == Matching(db, c)
                       node == IF found # {} THEN CHOOSE n \in found : TRUE
                               ELSE StoredNode(c.labels[1],
                                               Spread(c.onCreate, c.parameters))
                   IN  /\ db' = db \cup {node}
                       /\ execution' = advance([execution EXCEPT !.node = node])
             [] c.type = "Merge" ->
                   LET end(v) == IF v = "node" THEN execution.node ELSE parent
                   IN  /\ db' = db \cup {[kind |-> "relationship", type |-> c.relType,
                                         source |-> end(c.source),
                                         target |-> end(c.target)]}
                       /\ execution' = advance(execution)
    /\ UNCHANGED <<pc, connectInput, statement, whereVars, edgeVars, createVars, readVars, schemaVars>>

\* apoc.util.validate with a true predicate: the statement fails and the
\* transaction is rolled back.
AbortForbidden ==
    /\ pc = "connect_running"
    /\ execution.row <= Len(connectInput.rows)
    /\ LET c == statement.body[execution.index]
       IN  /\ c.type = "Validate"
           /\ EvalAuth(c.predicate, execution.row, connectInput.allowed)
           /\ execution' = [execution EXCEPT !.error = c.message, !.rows = <<>>]
    /\ db' = execution.dbBefore
    /\ pc' = "connect_done"
    /\ UNCHANGED <<connectInput, statement, whereVars, edgeVars, createVars, readVars, schemaVars>>

\* Every parent row is done: the transaction commits.
Commit ==
    /\ pc = "connect_running"
    /\ execution.row > Len(connectInput.rows)
    /\ pc' = "connect_done"
    /\ UNCHANGED <<connectInput, statement, db, execution, whereVars, edgeVars,
                   createVars, readVars, schemaVars>>

NextConnect == CreateConnectOrCreate \/ ExecClause \/ AbortForbidden \/ Commit

SpecConnect == InitConnect /\ [][NextConnect]_vars

(***************************************************************************)
(* AggregationOperation: the operation object, its transpilation into one  *)
(* subquery per aggregate field, and the run of those subqueries over the  *)
(* stored rows.                                                            *)
(***************************************************************************)
\* Number of filters and authorization filters, and number of sorts, added
\* to an operation.
MaxFilters == 2

\* Largest limit a caller asks for.
MaxLimit == 4

\* The stored nodes of the entity, by their two properties.
AllRows ==
    <<[something |-> "x", other |-> "p"], [something |-> "x", other |-> "q"],
      [something |-> "y", other |-> "p"], [something |-> "y", other |-> "q"]>>

\* Authorization filters: `node: {something: "$jwt.allowed"}`,
\* `jwt: {roles_INCLUDES: "admin"}`, and a rule set with no rule for READ.
AuthorizationFilters == {"authNode", "authJwt", "authNone"}

\* User filters: a property equals a value.
Filters == {"something_x", "other_p"}

\* Stored rows, JWT claims, the limit directive of the entity and the limit
\* the caller asks for (<<>> when the caller gives none); the entity of the
\* operation, the context handed to transpile, and the filters of the request.
ReadInputs ==
    {[rows |-> SelectSeq(AllRows, LAMBDA r : r \in S), jwt |-> j, directive |-> d,
      options |-> [limit |-> l, offset |-> <<>>], entity |-> "concrete",
      context |-> [target |-> <<"parent">>, direction |-> <<>>],
      filters |-> Filters, authFilters |-> AuthorizationFilters]
     : S \in SUBSET {AllRows[i] : i \in 1..Len(AllRows)},
       j \in {[allowed |-> "x", admin |-> TRUE], [allowed |-> "x", admin |-> FALSE],
              [allowed |-> "none", admin |-> TRUE]},
       d \in {[default |-> 1, max |-> 3], [default |-> 2, max |-> 2]},
       l \in {<<>>} \cup {<<n>> : n \in 1..MaxLimit}}



\* Filter.getPredicate / AuthorizationFilters.getPredicate
getPredicate(f) == IF f = "authNone" THEN Undefined ELSE Leaf(f)

\* Limit of the Pagination the factory builds: the directive's default when
\* the caller gives no limit, the caller's limit capped by the directive's
\* max otherwise.
getLimit(limit, directive) ==
    IF limit = <<>> THEN <<directive.default>>
    ELSE IF limit[1] > directive.max THEN <<directive.max>> ELSE limit

\* Mutant: authorization filters contribute no predicate.
getAuthFilterPredicateNone(op) == <<>>

getAuthFilterPredicate(op) ==
    filterTruthy([i \in 1..Len(op.authFilters) |-> getPredicate(op.authFilters[i])])

\* Mutant: the predicates are joined with OR.
getPredicatesOr(op) ==
    CypherOr([i \in 1..Len(op.filters) |-> getPredicate(op.filters[i])]
             \o getAuthFilterPredicate(op))

getPredicates(op) ==
    LET authPredicates == getAuthFilterPredicate(op)
    IN  CypherAnd([i \in 1..Len(op.filters) |-> getPredicate(op.filters[i])]
                  \o authPredicates)

\* Mutant: the limit of the pagination is not applied.
addSortToClauseNoLimit(op, sortClause) ==
    [type |-> sortClause.type, items |-> sortClause.items, orderBy |-> op.sortFields,
     skip |-> IF op.pagination # <<>> THEN op.pagination[1].skip ELSE <<>>,
     limit |-> <<>>,
     applied |-> <<"orderBy">>
                 \o (IF op.pagination # <<>> /\ op.pagination[1].skip # <<>>
                     THEN <<"skip">> ELSE <<>>)]

\* Mutant: the predicates of the operation are put on the sort clause.
addSortToClauseFiltering(op, sortClause) ==
    [type |-> sortClause.type, items |-> sortClause.items, orderBy |-> op.sortFields,
     skip |-> <<>>, limit |-> <<>>, applied |-> <<"orderBy">>,
     where |-> getPredicates(op)]

\* The clause with ORDER BY, and SKIP and LIMIT when the pagination has them;
\* `applied` is the order in which the three are put on the clause.
addSortToClause(op, sortClause) ==
    LET pagination == op.pagination
        skip == IF pagination # <<>> THEN pagination[1].skip ELSE <<>>
        limit == IF pagination # <<>> THEN pagination[1].limit ELSE <<>>
    IN  [type |-> sortClause.type, items |-> sortClause.items, orderBy |-> op.sortFields,
         skip |-> skip, limit |-> limit,
         applied |-> <<"orderBy">> \o (IF skip # <<>> THEN <<"skip">> ELSE <<>>)
                     \o (IF limit # <<>> THEN <<"limit">> ELSE <<>>)]

\* addPagination: the operation keeps the pagination it was given last.
addPaginationAppend(op, pagination) == [op EXCEPT !.pagination = Append(@, pagination)]

addPagination(op, pagination) == [op EXCEPT !.pagination = <<pagination>>]

\* addSort(...sort): pushes the sorts in the order given.
addSortFirst(op, sort) == [op EXCEPT !.sortFields = sort \o @]

addSort(op, sort) == [op EXCEPT !.sortFields = @ \o sort]

\* getChildren: the truthy members of fields, nodeFields, edgeFields,
\* filters, sortFields, authFilters and the pagination, in that order.
getChildren(op) ==
    LET as(kind, nodes) == [i \in 1..Len(nodes) |-> [kind |-> kind, node |-> nodes[i]]]
    IN  as("field", op.fields) \o as("field", op.nodeFields) \o as("field", op.edgeFields)
        \o as("filter", op.filters) \o as("sort", op.sortFields)
        \o as("authFilter", op.authFilters) \o as("pagination", op.pagination)

\* The clauses of one aggregate field.  A filter over a relationship
\* ("likes_some") brings a nested subquery, wrapped in a CALL importing the
\* target; the predicate then goes on the `WITH *` after it, else on the MATCH.
createSubquery(op, field, pattern, target, returnVariable) ==
    LET withSubquery == SelectSeq(getChildren(op),
                                  LAMBDA c : c.kind = "filter" /\ c.node = "likes_some")
        nestedSubqueries == [i \in 1..Len(withSubquery) |->
                                Call(<<[type |-> "Subquery", of |-> withSubquery[i].node]>>,
                                     <<target>>)]
        filterPredicates == getPredicates(op)
        selectionClauses == <<>>
        extra == selectionClauses # <<>> \/ nestedSubqueries # <<>>
        matchClause == [type |-> "Match", pattern |-> pattern,
                        where |-> IF extra THEN Undefined ELSE filterPredicates]
        extraSelectionWith ==
            IF extra
            THEN <<[type |-> "With", items |-> WithStar.items, where |-> filterPredicates]>>
            ELSE <<>>
        ret == Return(<<WithItem(Function(field, <<Var(target)>>), returnVariable)>>)
        sortClause == IF op.sortFields # <<>> \/ op.pagination # <<>>
                      THEN <<addSortToClause(op, WithStar)>>
                      ELSE <<>>
    IN  <<matchClause>> \o selectionClauses \o nestedSubqueries \o extraSelectionWith
        \o sortClause \o <<ret>>

\* An entry of a projection map is the path of its key and the variable;
\* setting a key replaces what the map held under it.
\* transpileAggregation: createContext, getPattern, then one subquery per
\* member of fields, nodeFields and (when the context has a relationship)
\* edgeFields.  Return variables are numbered in the order they are made.
\* `error` is the message of the exception thrown, "" when none is.
transpileAggregation(op, context) ==
    LET isRelationship == op.entity = "relationship"
        operationContext ==
            IF isRelationship
            THEN [source |-> context.target, relationship |-> <<"this_rel">>,
                  direction |-> context.direction, target |-> <<"this_target">>]
            ELSE [source |-> <<>>, relationship |-> <<>>, direction |-> <<>>,
                  target |-> <<"this">>]
        patternError ==
            IF operationContext.target = <<>> THEN "Not Target"
            ELSE IF operationContext.relationship # <<>>
                    /\ (operationContext.direction = <<>> \/ operationContext.source = <<>>)
                 THEN "No valid relationship"
                 ELSE ""
        pattern == [c \in {"source", "relationship", "direction", "target"} |->
                       operationContext[c]]
        target == operationContext.target[1]
        nFields == Len(op.fields)
        nNode == Len(op.nodeFields)
        fieldSubqueries ==
            [i \in 1..nFields |-> createSubquery(op, op.fields[i], pattern, target, i)]
        nodeFieldSubqueries ==
            [i \in 1..nNode |->
                createSubquery(op, op.nodeFields[i], pattern, target, nFields + i)]
        edgeFieldSubqueries ==
            IF operationContext.relationship # <<>>
            THEN [i \in 1..Len(op.edgeFields) |->
                     createSubquery(op, op.edgeFields[i], pattern,
                                    operationContext.relationship[1], nFields + nNode + i)]
            ELSE <<>>
        entries(prefix, fields, first) ==
            {[path |-> prefix \o <<fields[i]>>, var |-> first + i] : i \in 1..Len(fields)}
        nodeMap == entries(<<"node">>, op.nodeFields, nFields)
        edgeMap == IF operationContext.relationship # <<>>
                   THEN entries(<<"edge">>, op.edgeFields, nFields + nNode)
                   ELSE {}
        fieldMap == entries(<<>>, op.fields, 0)
        replaced == {e.path : e \in fieldMap}
                    \cup (IF nodeMap # {} THEN {<<"node">>} ELSE {})
                    \cup (IF edgeMap # {} THEN {<<"edge">>} ELSE {})
        kept == {e \in op.aggregationProjectionMap :
                    e.path \notin replaced /\ <<e.path[1]>> \notin replaced}
    IN  IF patternError # ""
        THEN [error |-> patternError, clauses |-> <<>>,
              aggregationProjectionMap |-> op.aggregationProjectionMap]
        ELSE [error |-> "",
              clauses |-> fieldSubqueries \o nodeFieldSubqueries \o edgeFieldSubqueries,
              aggregationProjectionMap |-> kept \cup fieldMap \cup nodeMap \cup edgeMap]

\* Mutant: the subqueries of a nested operation are wrapped in CALL as well.
transpileAlwaysCall(op, context) ==
    LET t == transpileAggregation(op, context)
    IN  IF context.target = <<>>
        THEN [error |-> "No parent node found!", clauses |-> <<>>,
              projectionExpr |-> op.aggregationProjectionMap]
        ELSE [error |-> t.error,
              clauses |-> [i \in 1..Len(t.clauses) |-> Call(t.clauses[i], <<>>)],
              projectionExpr |-> t.aggregationProjectionMap]

\* Mutant: only the members of fields are lowered into subqueries.
transpileFieldsOnly(op, context) ==
    LET t == transpileAggregation([op EXCEPT !.nodeFields = <<>>, !.edgeFields = <<>>],
                                  context)
    IN  IF context.target = <<>>
        THEN [error |-> "No parent node found!", clauses |-> <<>>,
              projectionExpr |-> op.aggregationProjectionMap]
        ELSE [error |-> t.error,
              clauses |-> IF op.entity # "relationship"
                          THEN [i \in 1..Len(t.clauses) |-> Call(t.clauses[i], <<>>)]
                          ELSE [i \in 1..Len(t.clauses) |->
                                   [type |-> "Concat", body |-> t.clauses[i]]],
              projectionExpr |-> t.aggregationProjectionMap]

\* Mutant: the target of the context is not checked.
transpileUnchecked(op, context) ==
    LET t == transpileAggregation(op, context)
    IN  [error |-> t.error,
         clauses |-> IF op.entity # "relationship"
                     THEN [i \in 1..Len(t.clauses) |-> Call(t.clauses[i], <<>>)]
                     ELSE [i \in 1..Len(t.clauses) |->
                              [type |-> "Concat", body |-> t.clauses[i]]],
         projectionExpr |-> t.aggregationProjectionMap]

\* transpile: a top-level operation (its entity is no relationship) wraps
\* each subquery in a CALL; a nested one returns the subqueries as they are,
\* each the concatenation of its clauses.
\* projectionExpr is the operation's aggregationProjectionMap.
transpile(op, context) ==
    IF context.target = <<>>
    THEN [error |-> "No parent node found!", clauses |-> <<>>,
          projectionExpr |-> op.aggregationProjectionMap]
    ELSE LET t == transpileAggregation(op, context)
             isTopLevel == op.entity # "relationship"
         IN  [error |-> t.error,
              clauses |-> IF isTopLevel
                          THEN [i \in 1..Len(t.clauses) |-> Call(t.clauses[i], <<>>)]
                          ELSE [i \in 1..Len(t.clauses) |->
                                   [type |-> "Concat", body |-> t.clauses[i]]],
              projectionExpr |-> t.aggregationProjectionMap]

\* Value of a leaf predicate on a stored row under the JWT claims.
Truth(row, jwt, key) ==
    CASE key = "something_x" -> row.something = "x"
      [] key = "other_p" -> row.other = "p"
      [] key = "authNode" -> row.something = jwt.allowed
      [] key = "authJwt" -> jwt.admin

RECURSIVE Satisfies(_, _, _)
Satisfies(row, jwt, p) ==
    CASE p.op = "leaf" -> Truth(row, jwt, p.key)
      [] p.op = "and" -> \A i \in 1..Len(p.args) : Satisfies(row, jwt, p.args[i])
      [] p.op = "or" -> \E i \in 1..Len(p.args) : Satisfies(row, jwt, p.args[i])
      [] p.op = "not" -> ~Satisfies(row, jwt, p.args[1])
      [] OTHER -> TRUE

\* MATCH ... WHERE, then WITH * SKIP LIMIT, then the aggregate over what is left.
RunSubquery(body, input) ==
    LET filtering == SelectSeq(body, LAMBDA c : "where" \in DOMAIN c)
        matched == SelectSeq(input.rows,
                             LAMBDA r : \A i \in 1..Len(filtering) :
                                            Satisfies(r, input.jwt, filtering[i].where))
        sort == SelectSeq(body, LAMBDA c : "orderBy" \in DOMAIN c)
        from == IF sort # <<>> /\ sort[1].skip # <<>> THEN sort[1].skip[1] + 1 ELSE 1
        skipped == SubSeq(matched, from, Len(matched))
        limited == IF sort # <<>> /\ sort[1].limit # <<>>
                      /\ sort[1].limit[1] < Len(skipped)
                   THEN SubSeq(skipped, 1, sort[1].limit[1])
                   ELSE skipped
    IN  [matched |-> matched, rows |-> limited, value |-> Len(limited)]

\* The operation after construction.
NewOperation(entity) ==
    [entity |-> entity, fields |-> <<>>, nodeFields |-> <<>>, edgeFields |-> <<>>,
     aggregationProjectionMap |-> {}, authFilters |-> <<>>, filters |-> <<>>,
     pagination |-> <<>>, sortFields |-> <<>>]

InitRead ==
    /\ pc = "read_building"
    /\ readInput \in ReadInputs
    /\ operation = NewOperation(readInput.entity)
    /\ transpiled = <<>>
    /\ readResult = <<>>
    /\ IdleWhere
    /\ IdleEdge
    /\ IdleCreate
    /\ IdleConnect
    /\ IdleSchema

SetFields ==
    /\ pc = "read_building"
    /\ operation' = [operation EXCEPT !.fields = <<"count">>]
    /\ UNCHANGED <<pc, readInput, transpiled, readResult, whereVars, edgeVars,
                   createVars, connectVars, schemaVars>>

AddFilters ==
    /\ pc = "read_building"
    /\ Len(operation.filters) + Len(operation.authFilters) < MaxFilters
    /\ \E f \in readInput.filters :
           operation' = [operation EXCEPT !.filters = Append(@, f)]
    /\ UNCHANGED <<pc, readInput, transpiled, readResult, whereVars, edgeVars,
                   createVars, connectVars, schemaVars>>

AddAuthFilters ==
    /\ pc = "read_building"
    /\ Len(operation.filters) + Len(operation.authFilters) < MaxFilters
    /\ \E f \in readInput.authFilters :
           operation' = [operation EXCEPT !.authFilters = Append(@, f)]
    /\ UNCHANGED <<pc, readInput, transpiled, readResult, whereVars, edgeVars,
                   createVars, connectVars, schemaVars>>

\* The factory hands the operation the Pagination of the request.
AddPagination ==
    /\ pc = "read_building"
    /\ operation' = addPagination(operation,
                                  [skip |-> readInput.options.offset,
                                   limit |-> getLimit(readInput.options.limit,
                                                      readInput.directive)])
    /\ UNCHANGED <<pc, readInput, transpiled, readResult, whereVars, edgeVars,
                   createVars, connectVars, schemaVars>>

\* transpile returns: the projection map of the operation has the new entries.
Transpile ==
    /\ pc = "read_building"
    /\ LET result == transpile(operation, readInput.context)
       IN  /\ result.error = ""
           /\ transpiled' = result
           /\ operation' = [operation EXCEPT
                                !.aggregationProjectionMap = result.projectionExpr]
    /\ pc' = "read_transpiled"
    /\ UNCHANGED <<readInput, readResult, whereVars, edgeVars, createVars, connectVars, schemaVars>>

\* transpile throws.
TranspileThrows ==
    /\ pc = "read_building"
    /\ LET result == transpile(operation, readInput.context)
       IN  /\ result.error # ""
           /\ transpiled' = result
           /\ operation' = [operation EXCEPT
                                !.aggregationProjectionMap = result.projectionExpr]
    /\ pc' = "read_failed"
    /\ UNCHANGED <<readInput, readResult, whereVars, edgeVars, createVars, connectVars, schemaVars>>

SetNodeFields ==
    /\ pc = "read_building"
    /\ \E fields \in {<<"title">>, <<"title", "rating">>} :
           operation' = [operation EXCEPT !.nodeFields = fields]
    /\ UNCHANGED <<pc, readInput, transpiled, readResult, whereVars, edgeVars,
                   createVars, connectVars, schemaVars>>

SetEdgeFields ==
    /\ pc = "read_building"
    /\ operation' = [operation EXCEPT !.edgeFields = <<"screenTime">>]
    /\ UNCHANGED <<pc, readInput, transpiled, readResult, whereVars, edgeVars,
                   createVars, connectVars, schemaVars>>

AddSort ==
    /\ pc = "read_building"
    /\ Len(operation.sortFields) < MaxFilters
    /\ \E sort \in {"id", "something"} : operation' = addSort(operation, <<sort>>)
    /\ UNCHANGED <<pc, readInput, transpiled, readResult, whereVars, edgeVars,
                   createVars, connectVars, schemaVars>>

Execute ==
    /\ pc = "read_transpiled"
    /\ readResult' = [error |-> "",
                      subqueries |-> [i \in 1..Len(transpiled.clauses) |->
                                         RunSubquery(transpiled.clauses[i].body,
                                                     readInput)]]
    /\ pc' = "read_done"
    /\ UNCHANGED <<readInput, operation, transpiled, whereVars, edgeVars,
                   createVars, connectVars, schemaVars>>

NextRead ==
    SetFields \/ AddFilters \/ AddAuthFilters \/ AddPagination \/ Transpile \/ Execute

SpecRead == InitRead /\ [][NextRead]_vars

(***************************************************************************)
(* The operation as the factory builds it, top-level or nested under a     *)
(* relationship, and its transpilation under any parent context.           *)
(***************************************************************************)
InitAggregation ==
    /\ pc = "read_building"
    /\ readInput \in
           {[rows |-> <<>>, jwt |-> [allowed |-> "x", admin |-> TRUE],
             directive |-> [default |-> 1, max |-> 3],
             options |-> [limit |-> <<2>>, offset |-> o],
             entity |-> e, context |-> [target |-> t, direction |-> d],
             filters |-> {"something_x", "likes_some"}, authFilters |-> {"authNode"}]
            : e \in {"concrete", "relationship"}, t \in {<<>>, <<"parent">>},
              d \in {<<>>, <<"right">>}, o \in {<<>>, <<1>>}}
    /\ operation = NewOperation(readInput.entity)
    /\ transpiled = <<>>
    /\ readResult = <<>>
    /\ IdleWhere
    /\ IdleEdge
    /\ IdleCreate
    /\ IdleConnect
    /\ IdleSchema

NextAggregation ==
    \/ SetFields \/ SetNodeFields \/ SetEdgeFields
    \/ AddFilters \/ AddAuthFilters \/ AddSort \/ AddPagination
    \/ Transpile \/ TranspileThrows

SpecAggregation == InitAggregation /\ [][NextAggregation]_vars

(***************************************************************************)
(* createRelationshipFields: the input types of one relationship field of  *)
(* a type.  The schema composer is a function from type names to the names *)
(* of the fields of the type.  The relationship is `actors` of Movie, to   *)
(* Actor, an array, readable, filterable and aggregated; interface and     *)
(* union relationships are composed elsewhere.                             *)
(***************************************************************************)
\* Mutant: the update input is never left out.
onlyConnectOrCreateAndNoUniqueFieldsNever(nestedOperations, node) == FALSE

onlyConnectOrCreateAndNoUniqueFields(nestedOperations, node) ==
    /\ Cardinality(nestedOperations) = 1
    /\ "CONNECT_OR_CREATE" \in nestedOperations
    /\ Len(node.uniqueFields) = 0

\* createConnectOrCreateField: no field when the node has no unique field,
\* else the type of the connectOrCreate field.
createConnectOrCreateField(rel, node) ==
    IF node.uniqueFields = <<>> THEN <<>>
    ELSE <<"MovieActorsConnectOrCreateFieldInput">>

\* createTopLevelConnectOrCreateInput: the connect-or-create input of the
\* source type gets a field for the relationship.
createTopLevelConnectOrCreateInput(composer, rel) ==
    [n \in DOMAIN composer \cup {"MovieConnectOrCreateInput"} |->
        IF n = "MovieConnectOrCreateInput"
        THEN (IF n \in DOMAIN composer THEN composer[n] ELSE {}) \cup {rel.fieldName}
        ELSE composer[n]]

\* The body of relationshipFields.forEach for a relationship to a node.
createRelationshipField(rel, node, composer) ==
    LET nestedOperations == rel.nestedOperations
        getOrCreateITC(sc, name) ==
            [n \in DOMAIN sc \cup {name} |-> IF n \in DOMAIN sc THEN sc[n] ELSE {}]
        addFields(sc, name, fields) == [sc EXCEPT ![name] = @ \cup fields]
        hasNodeFieldInput ==
            \/ "CONNECT" \in nestedOperations
            \/ "CREATE" \in nestedOperations
            \/ ("CONNECT_OR_CREATE" \in nestedOperations /\ Len(node.uniqueFields) # 0)
        nodeFieldInput == "MovieActorsFieldInput"
        hasNodeFieldUpdateInput ==
            /\ Cardinality(nestedOperations) # 0
            /\ ~onlyConnectOrCreateAndNoUniqueFields(nestedOperations, node)
        nodeFieldUpdateInput == "MovieActorsUpdateFieldInput"
        either == hasNodeFieldInput \/ hasNodeFieldUpdateInput
        \* addFields on the two field inputs when they exist
        addToBoth(sc, fields) ==
            LET u == IF hasNodeFieldUpdateInput
                     THEN addFields(sc, nodeFieldUpdateInput, fields) ELSE sc
            IN  IF hasNodeFieldInput THEN addFields(u, nodeFieldInput, fields) ELSE u
        s1 == IF hasNodeFieldInput THEN getOrCreateITC(composer, nodeFieldInput)
              ELSE composer
        s2 == IF hasNodeFieldUpdateInput
              THEN addFields(getOrCreateITC(s1, nodeFieldUpdateInput),
                             nodeFieldUpdateInput, {"where"})
              ELSE s1
        s3 == addFields(getOrCreateITC(s2, "MovieActorsAggregateInput"),
                        "MovieActorsAggregateInput",
                        {"count", "count_LT", "count_LTE", "count_GT", "count_GTE",
                         "AND", "OR", "NOT", "node"})
        s4 == addFields(s3, "MovieWhere",
                        {"actors", "actors_NOT", "actorsAggregate", "actors_ALL",
                         "actors_NONE", "actors_SINGLE", "actors_SOME"})
        s5 == addFields(s4, "Movie", {"actors", "actorsAggregate"})
        s6 == IF rel.settableOptions.onCreate /\ hasNodeFieldInput
              THEN addFields(s5, "MovieCreateInput", {rel.fieldName})
              ELSE s5
        connectOrCreate == createConnectOrCreateField(rel, node)
        s7 == IF "CONNECT_OR_CREATE" \in nestedOperations /\ either
                 /\ connectOrCreate # <<>>
              THEN createTopLevelConnectOrCreateInput(
                       addToBoth(getOrCreateITC(s6, connectOrCreate[1]),
                                 {"connectOrCreate"}),
                       rel)
              ELSE s6
        s8 == IF "CREATE" \in nestedOperations /\ either
              THEN addFields(
                       getOrCreateITC(
                           addToBoth(addFields(getOrCreateITC(s7, "MovieActorsCreateFieldInput"),
                                               "MovieActorsCreateFieldInput", {"node"}),
                                     {"create"}),
                           "MovieRelationInput"),
                       "MovieRelationInput", {rel.fieldName})
              ELSE s7
        s9 == IF "CONNECT" \in nestedOperations /\ either
              THEN addFields(
                       getOrCreateITC(
                           addToBoth(
                               addFields(
                                   getOrCreateITC(
                                       addFields(getOrCreateITC(s8, "ActorConnectWhere"),
                                                 "ActorConnectWhere", {"node"}),
                                       "MovieActorsConnectFieldInput"),
                                   "MovieActorsConnectFieldInput", {"where", "overwrite"}),
                               {"connect"}),
                           "MovieConnectInput"),
                       "MovieConnectInput", {rel.fieldName})
              ELSE s8
        s10 == IF rel.settableOptions.onUpdate /\ hasNodeFieldUpdateInput
               THEN LET a == addFields(s9, "MovieUpdateInput", {rel.fieldName})
                        b == addFields(getOrCreateITC(a, "MovieActorsUpdateConnectionInput"),
                                       "MovieActorsUpdateConnectionInput", {"node"})
                    IN  IF "UPDATE" \in nestedOperations
                        THEN addFields(b, nodeFieldUpdateInput, {"update"})
                        ELSE b
               ELSE s9
        s11 == IF "DELETE" \in nestedOperations /\ hasNodeFieldUpdateInput
               THEN addFields(
                        getOrCreateITC(
                            addFields(
                                getOrCreateITC(
                                    addFields(s10, nodeFieldUpdateInput, {"delete"}),
                                    "MovieActorsDeleteFieldInput"),
                                "MovieActorsDeleteFieldInput", {"where"}),
                            "MovieDeleteInput"),
                        "MovieDeleteInput", {rel.fieldName})
               ELSE s10
        s12 == IF "DISCONNECT" \in nestedOperations /\ hasNodeFieldUpdateInput
               THEN addFields(
                        getOrCreateITC(
                            addFields(
                                addFields(
                                    getOrCreateITC(s11, "MovieActorsDisconnectFieldInput"),
                                    "MovieActorsDisconnectFieldInput", {"where"}),
                                nodeFieldUpdateInput, {"disconnect"}),
                            "MovieDisconnectInput"),
                        "MovieDisconnectInput", {rel.fieldName})
               ELSE s11
    IN  s12

\* The types composed before createRelationshipFields is called; a call has
\* no or one relationship field, with any set of nested operations, to a
\* node with or without a unique field.
InitSchema ==
    /\ pc = "schema_input"
    /\ schemaComposer = [n \in {"Movie", "MovieCreateInput", "MovieUpdateInput",
                                "MovieWhere"} |-> {}]
    /\ relationshipFields \in
           {<<>>}
           \cup {<<[fieldName |-> "actors", nestedOperations |-> ops,
                    settableOptions |-> [onCreate |-> c, onUpdate |-> u],
                    node |-> [name |-> "Actor", uniqueFields |-> unique]]>>
                 : ops \in SUBSET {"CREATE", "UPDATE", "DELETE", "CONNECT", "DISCONNECT",
                                   "CONNECT_OR_CREATE"},
                   c \in BOOLEAN, u \in BOOLEAN, unique \in {<<>>, <<"id">>}}
    /\ document = <<>>
    /\ directivesVisited = 0
    /\ reported = <<>>
    /\ IdleWhere
    /\ IdleEdge
    /\ IdleCreate
    /\ IdleConnect
    /\ IdleRead

\* if (!relationshipFields.length) return;
ReturnNoRelationshipFields ==
    /\ pc = "schema_input"
    /\ relationshipFields = <<>>
    /\ pc' = "schema_done"
    /\ UNCHANGED <<schemaVars, whereVars, edgeVars, createVars, connectVars, readVars>>

\* One turn of relationshipFields.forEach.
CreateRelationshipFields ==
    /\ pc = "schema_input"
    /\ relationshipFields # <<>>
    /\ schemaComposer' = createRelationshipField(Head(relationshipFields),
                                                 Head(relationshipFields).node,
                                                 schemaComposer)
    /\ pc' = "schema_done"
    /\ UNCHANGED <<relationshipFields, document, directivesVisited, reported,
                   whereVars, edgeVars, createVars, connectVars, readVars>>

NextSchema == ReturnNoRelationshipFields \/ CreateRelationshipFields

SpecSchema == InitSchema /\ [][NextSchema]_vars

(***************************************************************************)
(* ValidRelationshipProperties: the validation rule of the interfaces      *)
(* marked @relationshipProperties.  The visitor's Directive is called on   *)
(* each directive occurrence of the document; an occurrence carries what   *)
(* getPathToNode returns for it: the path to the definition it is on and   *)
(* that definition (none when no definition was traversed).                *)
(***************************************************************************)
\* Number of fields of an interface.
MaxFields == 2

\* [fieldName, message] pairs.
RESERVED_INTERFACE_FIELDS ==
    <<<<"node", "Interface field name 'node' reserved to support relay">>,
      <<"cursor", "Interface field name 'cursor' reserved to support relay">>>>

forbiddenDirectives ==
    <<"authorization", "authentication", "subscriptionsAuthorization", "relationship",
      "cypher">>

\* Mutant: the fields are examined last to first.
assertRelationshipPropertiesLast(traversedDef) ==
    IF traversedDef.kind # "InterfaceTypeDefinition" THEN <<>>
    ELSE LET reservedOf(field) ==
                 SelectSeq(RESERVED_INTERFACE_FIELDS, LAMBDA r : field.name = r[1])
             found(field) ==
                 IF field.hasDirectives
                 THEN SelectSeq(field.directives,
                                LAMBDA d : \E k \in 1..Len(forbiddenDirectives) :
                                               forbiddenDirectives[k] = d)
                 ELSE <<>>
             RECURSIVE forEach(_)
             forEach(i) ==
                 IF i < 1 THEN <<>>
                 ELSE IF reservedOf(traversedDef.fields[i]) # <<>>
                 THEN <<[errorMsg |-> reservedOf(traversedDef.fields[i])[1][2],
                         errorPath |-> <<traversedDef.fields[i].name>>]>>
                 ELSE IF found(traversedDef.fields[i]) # <<>>
                 THEN <<[errorMsg |-> found(traversedDef.fields[i])[1],
                         errorPath |-> <<traversedDef.fields[i].name>>]>>
                 ELSE forEach(i - 1)
         IN  forEach(Len(traversedDef.fields))

\* What assertValid(() => assertRelationshipProperties(traversedDef)) gives:
\* no error, or the DocumentValidationError thrown at the first field that
\* has a reserved name or a forbidden directive.  A definition without
\* fields has the empty list; errorMsg keeps what tells the messages apart
\* (the reserved name's message, or the name of the directive found).
assertRelationshipProperties(traversedDef) ==
    IF traversedDef.kind # "InterfaceTypeDefinition" THEN <<>>
    ELSE LET reservedOf(field) ==
                 SelectSeq(RESERVED_INTERFACE_FIELDS, LAMBDA r : field.name = r[1])
             \* field.directives.find((d) => forbiddenDirectives.includes(d.name.value))
             found(field) ==
                 IF field.hasDirectives
                 THEN SelectSeq(field.directives,
                                LAMBDA d : \E k \in 1..Len(forbiddenDirectives) :
                                               forbiddenDirectives[k] = d)
                 ELSE <<>>
             RECURSIVE forEach(_)
             forEach(i) ==
                 IF i > Len(traversedDef.fields) THEN <<>>
                 ELSE IF reservedOf(traversedDef.fields[i]) # <<>>
                 THEN <<[errorMsg |-> reservedOf(traversedDef.fields[i])[1][2],
                         errorPath |-> <<traversedDef.fields[i].name>>]>>
                 ELSE IF found(traversedDef.fields[i]) # <<>>
                 THEN <<[errorMsg |-> found(traversedDef.fields[i])[1],
                         errorPath |-> <<traversedDef.fields[i].name>>]>>
                 ELSE forEach(i + 1)
         IN  forEach(1)

\* A document: an interface with any fields, marked @relationshipProperties,
\* placed anywhere among the occurrences of a fixed document: a marked
\* interface with two offending fields, a marked object type and a marked
\* field definition with an offending field, another directive on an
\* interface with an offending field, and an occurrence for which no
\* definition was traversed.
InitValidation ==
    LET FieldDefinition(name, hasDirectives, directives) ==
            [kind |-> "FieldDefinition", name |-> name, hasDirectives |-> hasDirectives,
             directives |-> directives, fields |-> <<>>]
        Fields ==
            {FieldDefinition("node", FALSE, <<>>), FieldDefinition("since", FALSE, <<>>),
             FieldDefinition("since", TRUE, <<"deprecated">>),
             FieldDefinition("cursor", TRUE, <<"cypher">>)}
            \cup {FieldDefinition("roles", TRUE, <<"deprecated", forbiddenDirectives[k]>>)
                  : k \in 1..Len(forbiddenDirectives)}
        Definition(kind, name, fields) == [kind |-> kind, name |-> name, fields |-> fields]
        Occurrence(name, traversedDef) ==
            [name |-> name,
             pathToNode |-> IF traversedDef = <<>> THEN <<>> ELSE <<traversedDef[1].name>>,
             traversedDef |-> traversedDef]
        offending == <<FieldDefinition("roles", TRUE, <<"cypher">>),
                       FieldDefinition("node", FALSE, <<>>)>>
        others ==
            <<Occurrence("relationshipProperties",
                         <<Definition("InterfaceTypeDefinition", "Directed", offending)>>),
              Occurrence("relationshipProperties",
                         <<Definition("ObjectTypeDefinition", "Movie", offending)>>),
              Occurrence("relationshipProperties",
                         <<FieldDefinition("node", TRUE, <<"relationshipProperties">>)>>),
              Occurrence("query",
                         <<Definition("InterfaceTypeDefinition", "Reviewed", offending)>>),
              Occurrence("relationshipProperties", <<>>)>>
    IN  /\ pc = "validation"
        /\ document \in
               {SubSeq(others, 1, p)
                    \o <<Occurrence("relationshipProperties",
                                    <<Definition("InterfaceTypeDefinition", "ActedIn", fs)>>)>>
                    \o SubSeq(others, p + 1, Len(others))
                : p \in 0..Len(others),
                  fs \in UNION {[1..n -> Fields] : n \in 0..MaxFields}}
        /\ directivesVisited = 0
        /\ reported = <<>>
        /\ relationshipFields = <<>>
        /\ schemaComposer = <<>>
        /\ IdleWhere
        /\ IdleEdge
        /\ IdleCreate
        /\ IdleConnect
        /\ IdleRead

\* The visitor's Directive on the next directive occurrence of the document.
Directive ==
    /\ pc = "validation"
    /\ directivesVisited < Len(document)
    /\ LET directiveNode == document[directivesVisited + 1]
           assertResult == assertRelationshipProperties(directiveNode.traversedDef[1])
       IN  reported' =
               IF directiveNode.name # "relationshipProperties" THEN reported
               ELSE IF directiveNode.traversedDef = <<>> THEN reported
               ELSE IF assertResult # <<>>
               THEN Append(reported,
                           [nodes |-> <<directivesVisited + 1,
                                        directiveNode.traversedDef[1].name>>,
                            path |-> directiveNode.pathToNode \o assertResult[1].errorPath,
                            errorMsg |-> assertResult[1].errorMsg])
               ELSE reported
    /\ directivesVisited' = directivesVisited + 1
    /\ pc' = IF directivesVisited + 1 = Len(document) THEN "validation_done" ELSE pc
    /\ UNCHANGED <<document, relationshipFields, schemaComposer, whereVars, edgeVars,
                   createVars, connectVars, readVars>>

NextValidation == Directive

SpecValidation == InitValidation /\ [][NextValidation]_vars

\* ======================= properties =======================

(***************************************************************************)
(* Truth of predicates and of where inputs on a row.  A row gives the      *)
(* truth of every leaf comparator; no predicate (undefined) restricts      *)
(* nothing.                                                                *)
(***************************************************************************)
Rows == [LeafKeys \cup {"NOT"} -> BOOLEAN]

RECURSIVE Holds(_, _)
Holds(p, row) ==
    CASE p.op = "undefined" -> TRUE
      [] p.op = "leaf" -> row[p.key]
      [] p.op = "and" -> \A i \in 1..Len(p.args) : Holds(p.args[i], row)
      [] p.op = "or" -> \E i \in 1..Len(p.args) : Holds(p.args[i], row)
      [] p.op = "not" -> ~Holds(p.args[1], row)

\* Direct boolean evaluation of a where input: entries conjoined, AND lists
\* conjoined, OR lists disjoined, NOT negated.
RECURSIVE DirectEval(_, _)
DirectEval(f, row) ==
    \A i \in 1..Len(f) :
        CASE f[i].key = "AND" -> \A j \in 1..Len(f[i].list) : DirectEval(f[i].list[j], row)
          [] f[i].key = "OR" -> \E j \in 1..Len(f[i].list) : DirectEval(f[i].list[j], row)
          [] f[i].key = "NOT" -> ~DirectEval(f[i].list[1], row)
          [] OTHER -> row[f[i].key]

\* The where input uses leaf comparators, AND and OR only.
RECURSIVE NoNot(_)
NoNot(f) ==
    \A i \in 1..Len(f) :
        /\ f[i].key # "NOT"
        /\ \A j \in 1..Len(f[i].list) : NoNot(f[i].list[j])

\* The where input holds a leaf comparator at some depth.
RECURSIVE HasLeaf(_)
HasLeaf(f) ==
    \E i \in 1..Len(f) :
        \/ f[i].key \in LeafKeys
        \/ /\ f[i].key \in {"AND", "OR"}
           /\ \E j \in 1..Len(f[i].list) : HasLeaf(f[i].list[j])

\* Every OR list, at any depth, is non-empty and each of its members holds a
\* leaf comparator.
RECURSIVE OrListsHaveLeaves(_)
OrListsHaveLeaves(f) ==
    \A i \in 1..Len(f) :
        /\ \A j \in 1..Len(f[i].list) : OrListsHaveLeaves(f[i].list[j])
        /\ f[i].key = "OR" =>
               /\ f[i].list # <<>>
               /\ \A j \in 1..Len(f[i].list) : HasLeaf(f[i].list[j])

(***************************************************************************)
(* C1 *)
(***************************************************************************)
\* C1 as stated: for every where input built from leaf comparators, AND lists
\* and OR lists, the predicate createWherePredicate returns is true on a row
\* exactly when direct boolean evaluation of the input is true on that row.
C1_TruthTableAsStated ==
    (pc = "where_done" /\ NoNot(whereInput)) =>
        \A row \in Rows : Holds(whereResult.predicate, row) = DirectEval(whereInput, row)

\* C1 as amended: the same, for the where inputs in which every OR list is
\* non-empty and each member of an OR list holds at least one leaf comparator
\* (an OR list member that yields no predicate is skipped, not read as true).
C1_TruthTable ==
    (pc = "where_done" /\ NoNot(whereInput) /\ OrListsHaveLeaves(whereInput)) =>
        \A row \in Rows : Holds(whereResult.predicate, row) = DirectEval(whereInput, row)

\* An OR list of two members has been translated to a disjunction.
C1_Witness ==
    /\ pc = "where_done"
    /\ NoNot(whereInput)
    /\ OrListsHaveLeaves(whereInput)
    /\ \E i \in 1..Len(whereInput) :
           whereInput[i].key = "OR" /\ Len(whereInput[i].list) = 2
    /\ whereResult.predicate.op = "or"
    /\ Len(whereResult.predicate.args) = 2

(***************************************************************************)
(* C2 *)
(***************************************************************************)
\* C2: for a where input {NOT: f} the returned predicate is the negation of
\* the conjunction of the predicates of f's entries.
C2_NotIsLogicalOperator ==
    (/\ pc = "where_done"
     /\ Len(whereInput) = 1
     /\ whereInput[1].key = "NOT"
     /\ HasLeaf(whereInput[1].list[1])) =>
        whereResult.predicate =
            CypherNot(createWherePredicate(whereInput[1].list[1]).predicate)

(***************************************************************************)
(* C3 *)
(***************************************************************************)
\* The sets of edge values a relationship pattern can collect.
EdgeValues == {10, 11, 12}

Compare(key, v, lit) == IF key = "someFloat_EQUAL" THEN v = lit ELSE v > lit

\* Value of the returned boolean when the pattern collects `coll`.
RECURSIVE EvalEdgeExpr(_, _, _)
EvalEdgeExpr(x, params, coll) ==
    CASE x.op = "any" -> \E v \in coll : Compare(x.key, v, params[x.param + 1])
      [] x.op = "and" -> \A i \in 1..Len(x.args) : EvalEdgeExpr(x.args[i], params, coll)
      [] x.op = "or" -> \E i \in 1..Len(x.args) : EvalEdgeExpr(x.args[i], params, coll)
      [] x.op = "not" -> ~EvalEdgeExpr(x.args[1], params, coll)

\* Direct evaluation of the filter tree on the collected values.
RECURSIVE EvalEdgeTree(_, _)
EvalEdgeTree(f, coll) ==
    \A i \in 1..Len(f) :
        CASE f[i].key = "AND" -> \A j \in 1..Len(f[i].list) : EvalEdgeTree(f[i].list[j], coll)
          [] f[i].key = "OR" -> \E j \in 1..Len(f[i].list) : EvalEdgeTree(f[i].list[j], coll)
          [] f[i].key = "NOT" -> ~EvalEdgeTree(f[i].list[1], coll)
          [] OTHER -> \E v \in coll : Compare(f[i].key, v, LeafValue(f[i].key))

\* The leaf comparators of a tree, left to right.
RECURSIVE TreeLeaves(_)
TreeLeaves(f) ==
    IF f = <<>> THEN <<>>
    ELSE (IF Head(f).key \in EdgeLeafKeys THEN <<Head(f).key>>
          ELSE IF Head(f).list = <<>> THEN <<>>
          ELSE TreeLeaves(Head(f).list[1])
               \o TreeLeaves(<<[Head(f) EXCEPT !.list = Tail(Head(f).list)]>>))
         \o TreeLeaves(Tail(f))

\* The collected-value tests of an expression, left to right.
RECURSIVE ExprTests(_)
ExprTests(x) ==
    IF x.op = "any" THEN <<x>>
    ELSE IF x.args = <<>> THEN <<>>
    ELSE ExprTests(x.args[1]) \o ExprTests([x EXCEPT !.args = Tail(x.args)])

\* C3: an aggregate edge filter that is a logical tree compiles to exactly one
\* subquery over the relationship pattern; its boolean has one collected-value
\* test per leaf, combined with the connectives of the tree; one parameter is
\* bound per leaf, left to right; the outer predicate is `variable = true`.
C3_EdgeLogicalTree ==
    pc = "edge_done" =>
        LET sq == edgeResult.subqueries
            leaves == TreeLeaves(edgeWhere)
            tests == ExprTests(sq[1].returnExpr)
        IN  /\ Len(sq) = 1
            /\ sq[1].match = RelationshipPattern
            /\ Len(tests) = Len(leaves)
            /\ Len(edgeResult.params) = Len(leaves)
            /\ \A i \in 1..Len(leaves) :
                   /\ tests[i].key = leaves[i]
                   /\ tests[i].param = i - 1
                   /\ tests[i].var = FirstEdgeVar + i - 1
                   /\ edgeResult.params[i] = LeafValue(leaves[i])
            /\ \A coll \in SUBSET EdgeValues :
                   EvalEdgeExpr(sq[1].returnExpr, edgeResult.params, coll)
                       = EvalEdgeTree(edgeWhere, coll)
            /\ edgeResult.predicate = <<sq[1].returnVar, "=", TRUE>>
            /\ sq[1].returnVar = FirstEdgeVar + Len(leaves)

\* AND: [{someFloat_EQUAL: 10}, {someFloat_GT: 11}] has been translated.
C3_Witness ==
    /\ pc = "edge_done"
    /\ Len(edgeWhere) = 1
    /\ edgeWhere[1].key = "AND"
    /\ Len(edgeWhere[1].list) = 2
    /\ edgeResult.subqueries[1].returnExpr.op = "and"
    /\ edgeResult.params = <<10, 11>>
    /\ edgeResult.predicate = <<4, "=", TRUE>>

(***************************************************************************)
(* The statement a clause renders to: the lines of a RawCypher take its    *)
(* place, in every subquery.                                               *)
(***************************************************************************)
RECURSIVE Rendered(_)
Rendered(cs) ==
    IF cs = <<>> THEN <<>>
    ELSE LET c == Head(cs)
         IN  (CASE c.type = "RawCypher" -> c.lines
                [] c.type = "Call" -> <<[c EXCEPT !.body = Rendered(c.body)]>>
                [] OTHER -> <<c>>)
             \o Rendered(Tail(cs))

\* The bodies of all CALL subqueries of a rendered statement, outermost first.
RECURSIVE CallBodies(_)
CallBodies(cs) ==
    IF cs = <<>> THEN <<>>
    ELSE (IF Head(cs).type = "Call"
          THEN <<Head(cs).body>> \o CallBodies(Head(cs).body)
          ELSE <<>>)
         \o CallBodies(Tail(cs))

\* Number of clauses of a type in a rendered statement, subqueries included.
RECURSIVE CountType(_, _)
CountType(cs, t) ==
    IF cs = <<>> THEN 0
    ELSE (IF Head(cs).type = t THEN 1 ELSE 0)
         + (IF Head(cs).type = "Call" THEN CountType(Head(cs).body, t) ELSE 0)
         + CountType(Tail(cs), t)

\* Number of NestedCreate nodes of a tree.
RECURSIVE NumNested(_)
RECURSIVE NumNestedIn(_)
NumNestedIn(children) ==
    IF children = <<>> THEN 0
    ELSE 1 + NumNested(Head(children)) + NumNestedIn(Tail(children))
NumNested(ast) == NumNestedIn(ast.children)

\* The NestedCreate nodes of a tree.
RECURSIVE NestedNodes(_)
NestedNodes(ast) ==
    UNION {{ast.children[i]} \cup NestedNodes(ast.children[i]) : i \in 1..Len(ast.children)}

(***************************************************************************)
(* C4 *)
(***************************************************************************)
\* C4: the clauses emitted for a create tree depend on the tree of
\* relationship fields only, not on the number of sibling inputs: the
\* statement has one CREATE and one CALL per node, one UNWIND and one MERGE
\* per NestedCreate, and the subquery of each NestedCreate holds exactly one
\* UNWIND, over `<parent payload>.<relationship field>.create`.
C4_ClausesIndependentOfSiblings ==
    pc = "create_done" =>
        LET stmt == Rendered(clause)
            n == NumNested(createTree)
        IN  /\ CountType(stmt, "Unwind") = n
            /\ CountType(stmt, "Merge") = n
            /\ CountType(stmt, "Create") = n + 1
            /\ CountType(stmt, "Call") = n + 1
            /\ \A nc \in NestedNodes(createTree) :
                   LET entry == environment[nc.id]
                       body == Rendered(entry.clause)[2].body
                   IN  /\ Len(entry.clause) = 2
                       /\ CountType(SelectSeq(body, LAMBDA c : c.type # "Call"), "Unwind") = 1
                       /\ body[2].type = "Unwind"
                       /\ body[2].expr =
                              Property(entry.unwindVar,
                                       <<nc.relationshipPropertyPath, "create">>)

\* A tree with two NestedCreate nodes and two sibling inputs per field.
C4_Witness ==
    /\ pc = "create_done"
    /\ siblings = MaxSiblings
    /\ siblings >= 2
    /\ NumNested(createTree) = 2
    /\ CountType(Rendered(clause), "Unwind") = 2

(***************************************************************************)
(* C5 *)
(***************************************************************************)
IsAutogeneratedValue(v) ==
    v.kind = "function" /\ v.name \in {"datetime", "time", "randomUUID"}

\* The CREATE clauses of a rendered statement, subqueries included.
RECURSIVE CreateClauses(_)
CreateClauses(cs) ==
    IF cs = <<>> THEN <<>>
    ELSE (CASE Head(cs).type = "Create" -> <<Head(cs)>>
            [] Head(cs).type = "Call" -> CreateClauses(Head(cs).body)
            [] OTHER -> <<>>)
         \o CreateClauses(Tail(cs))

\* C5: a property that is autogenerated and also given explicitly is written
\* from the explicit value only: no SET list assigns a property both an
\* explicit value and an autogenerated one (server time or random UUID).
C5_ExplicitSuppressesAutogenerated ==
    pc = "create_done" =>
        LET creates == CreateClauses(Rendered(clause))
        IN  \A c \in 1..Len(creates) :
                \A i, j \in 1..Len(creates[c].set) :
                    (/\ IsAutogeneratedValue(creates[c].set[i].value)
                     /\ ~IsAutogeneratedValue(creates[c].set[j].value))
                        => creates[c].set[i].target # creates[c].set[j].target

(***************************************************************************)
(* C6 *)
(***************************************************************************)
\* The validate assertion of the create rule of `element` on node variable v.
NodeAuthAssertion(element, v) ==
    Validate(NotExpr([kind |-> "rule", entity |-> element, var |-> v]),
             AUTH_FORBIDDEN_ERROR)

\* C6: every node whose entity has a create authorization rule with a
\* non-empty predicate gets, in the call subquery of its CREATE, the validate
\* assertion raising the forbidden error, after the CREATE and before the
\* subquery's RETURN, at every nesting depth.
C6_CreateRuleAsserted ==
    pc = "create_done" =>
        LET bodies == CallBodies(Rendered(clause))
        IN  \A b \in 1..Len(bodies) :
                \A i \in 1..Len(bodies[b]) :
                    (/\ bodies[b][i].type = "Create"
                     /\ Elements[bodies[b][i].labels[1]].auth = "rule")
                        => \E j \in (i + 1)..(Len(bodies[b]) - 1) :
                               /\ bodies[b][j] =
                                      NodeAuthAssertion(bodies[b][i].labels[1],
                                                        bodies[b][i].node)
                               /\ bodies[b][Len(bodies[b])].type = "Return"

\* A nested node with a create rule, two levels below the root, is emitted.
C6_Witness ==
    /\ pc = "create_done"
    /\ \E c1 \in 1..Len(createTree.children) :
           \E c2 \in 1..Len(createTree.children[c1].children) :
               Elements[createTree.children[c1].children[c2].node].auth = "rule"
    /\ CountType(Rendered(clause), "Validate") >= 1

(***************************************************************************)
(* C7 *)
(***************************************************************************)
\* The parent rows and items for which the rule of the connected node is false.
DeniedRows ==
    {q \in (DOMAIN connectInput.rows) \X (0..(Len(connectInput.input) - 1)) :
        q \notin connectInput.allowed}

\* C7: when the validate rule of the connected node is false for some row
\* the statement touches, the operation ends with the forbidden error,
\* returns no row, and the database holds exactly what it held before the
\* statement: nothing the statement wrote remains.
C7_ForbiddenAbortsEverything ==
    (/\ pc = "connect_done"
     /\ Elements[connectInput.refNode].auth = "rule"
     /\ DeniedRows # {})
        => /\ execution.error = AUTH_FORBIDDEN_ERROR
           /\ execution.rows = <<>>
           /\ db = execution.dbBefore

\* The rule holds for the first item of the first row, whose node the
\* statement creates, and fails for a later item: the failure undoes the write.
C7_Witness ==
    /\ pc = "connect_done"
    /\ Elements[connectInput.refNode].auth = "rule"
    /\ <<1, 0>> \in connectInput.allowed
    /\ <<1, 1>> \in DeniedRows
    /\ connectInput.input[1].where.title = "k2"
    /\ execution.error = AUTH_FORBIDDEN_ERROR
    /\ execution.index = 4
    /\ db = execution.dbBefore

(***************************************************************************)
(* C8 *)
(***************************************************************************)
\* The authorization filters of the operation that carry a rule.
DefinedAuthFilters ==
    {operation.authFilters[i] : i \in 1..Len(operation.authFilters)} \ {"authNone"}

UserFilters == {operation.filters[i] : i \in 1..Len(operation.filters)}

\* The stored rows, in stored order, for which every key of the set holds.
RowsWhere(keys) ==
    SelectSeq(readInput.rows, LAMBDA r : \A k \in keys : Truth(r, readInput.jwt, k))

\* C8: a filter rule that is false for a row removes that row and raises no
\* error: each subquery matches exactly the stored rows for which every
\* authorization filter rule (and every user filter) holds, possibly none,
\* and the operation reports no failure.
C8_FilterRuleRemovesRowsSilently ==
    pc = "read_done" =>
        /\ readResult.error = ""
        /\ \A i \in 1..Len(readResult.subqueries) :
               readResult.subqueries[i].matched =
                   RowsWhere(UserFilters \cup DefinedAuthFilters)

\* A rule on the node that holds for some stored rows and fails for others,
\* with no user filter: the result is the rows for which it holds.
C8_Witness ==
    /\ pc = "read_done"
    /\ operation.filters = <<>>
    /\ operation.authFilters = <<"authNode">>
    /\ Len(readResult.subqueries) = 1
    /\ Len(readResult.subqueries[1].matched) = 2
    /\ Len(readInput.rows) = 4
    /\ readResult.error = ""

(***************************************************************************)
(* C9 *)
(***************************************************************************)
\* C9: the predicate on the match is the conjunction, never a disjunction,
\* of every user filter predicate and every defined authorization filter
\* predicate, in that order; a row that matches satisfies each of them, so
\* no user filter admits a row that an authorization filter excludes.
C9_PredicatesAreConjoined ==
    pc \in {"read_transpiled", "read_done"} =>
        \A i \in 1..Len(transpiled.clauses) :
            LET where == transpiled.clauses[i].body[1].where
                all == [j \in 1..Len(operation.filters) |-> Leaf(operation.filters[j])]
                       \o SelectSeq([j \in 1..Len(operation.authFilters) |->
                                        Leaf(operation.authFilters[j])],
                                    LAMBDA p : p.key # "authNone")
            IN  /\ where.op \in {"undefined", "leaf", "and"}
                /\ where.op = "undefined" => all = <<>>
                /\ where.op = "leaf" => all = <<where>>
                /\ where.op = "and" => where.args = all
                /\ \A r \in 1..Len(readInput.rows) :
                       Satisfies(readInput.rows[r], readInput.jwt, where)
                           => /\ \A k \in DefinedAuthFilters :
                                     Truth(readInput.rows[r], readInput.jwt, k)
                              /\ \A k \in UserFilters :
                                     Truth(readInput.rows[r], readInput.jwt, k)

\* A user filter and an authorization filter together: rows pass the user
\* filter that the authorization filter excludes, and none of them matches.
C9_Witness ==
    /\ pc = "read_done"
    /\ operation.filters = <<"other_p">>
    /\ operation.authFilters = <<"authNode">>
    /\ Len(transpiled.clauses) = 1
    /\ transpiled.clauses[1].body[1].where.op = "and"
    /\ Len(RowsWhere({"other_p"})) = 2
    /\ Len(readResult.subqueries[1].matched) = 1

(***************************************************************************)
(* C10 *)
(***************************************************************************)
\* The smaller of two numbers.
Smaller(a, b) == IF a < b THEN a ELSE b

\* C10: with a limit directive (default, max) on the entity the effective
\* limit is the default when the caller gives no limit and
\* min(caller limit, max) when the caller gives one: it never exceeds max,
\* a caller limit below max is used unchanged, and no subquery returns more
\* rows than it.
C10_EffectiveLimit ==
    operation # <<>> /\ operation.pagination # <<>> =>
        LET limit == operation.pagination[1].limit
            asked == readInput.options.limit
            effective == IF asked = <<>> THEN readInput.directive.default
                         ELSE Smaller(asked[1], readInput.directive.max)
        IN  /\ limit = <<effective>>
            /\ effective <= readInput.directive.max
            /\ pc = "read_done" =>
                   \A i \in 1..Len(readResult.subqueries) :
                       Len(readResult.subqueries[i].rows) =
                           Smaller(effective, Len(readResult.subqueries[i].matched))

\* The caller asks for more than the max of 3 and four rows match: three
\* are returned.
C10_Witness ==
    /\ pc = "read_done"
    /\ operation.pagination # <<>>
    /\ readInput.options.limit # <<>>
    /\ readInput.directive.max = 3
    /\ readInput.options.limit[1] > readInput.directive.max
    /\ Len(readResult.subqueries) = 1
    /\ Len(readResult.subqueries[1].matched) = 4
    /\ Len(readResult.subqueries[1].rows) = 3

(***************************************************************************)
(* C11 *)
(***************************************************************************)
\* The clauses of the i-th subquery transpile returned.
SubqueryBody(i) == transpiled.clauses[i].body

\* The return variable of the i-th subquery and the field it aggregates.
ReturnVariable(i) == SubqueryBody(i)[Len(SubqueryBody(i))].items[1].alias
AggregatedField(i) == SubqueryBody(i)[Len(SubqueryBody(i))].items[1].expr.name

\* The i-th subquery is a MATCH of its own, on the pattern of the first
\* subquery, its return variable is no other subquery's, and the projection
\* map refers to that variable once, under the given path.
OwnSubquery(i, path) ==
    /\ SubqueryBody(i)[1].type = "Match"
    /\ Len(SelectSeq(SubqueryBody(i), LAMBDA c : c.type = "Match")) = 1
    /\ SubqueryBody(i)[1].pattern.target = SubqueryBody(1)[1].pattern.target
    /\ SubqueryBody(i)[1].pattern.source = SubqueryBody(1)[1].pattern.source
    /\ \A j \in 1..Len(transpiled.clauses) : j # i => ReturnVariable(j) # ReturnVariable(i)
    /\ {e \in transpiled.projectionExpr : e.var = ReturnVariable(i)}
           = {[path |-> path, var |-> ReturnVariable(i)]}

\* The statement of the claim: every member of fields, nodeFields and
\* edgeFields has a subquery of its own.
C11_EveryFieldHasItsSubquery ==
    pc = "read_transpiled" =>
        LET all == operation.fields \o operation.nodeFields \o operation.edgeFields
        IN  /\ Len(transpiled.clauses) = Len(all)
            /\ \A i \in 1..Len(transpiled.clauses) : AggregatedField(i) = all[i]

\* C11: transpile lowers every member of fields and nodeFields, and every
\* member of edgeFields when the operation is on a relationship, into one
\* subquery of its own: a separate MATCH of the same pattern with a return
\* variable of its own that the projection map refers to exactly once (at top
\* level, under node, under edge).  The edge fields of an operation that is
\* not on a relationship get no subquery and no projection entry.
C11_FieldsOfTheContextHaveTheirSubquery ==
    pc = "read_transpiled" =>
        LET nFields == Len(operation.fields)
            nNode == Len(operation.nodeFields)
            edge == IF operation.entity = "relationship"
                    THEN operation.edgeFields ELSE <<>>
            all == operation.fields \o operation.nodeFields \o edge
        IN  /\ Len(transpiled.clauses) = Len(all)
            /\ Cardinality(transpiled.projectionExpr) = Len(all)
            /\ \A i \in 1..Len(all) :
                   /\ AggregatedField(i) = all[i]
                   /\ OwnSubquery(i, IF i <= nFields THEN <<all[i]>>
                                     ELSE IF i <= nFields + nNode THEN <<"node", all[i]>>
                                     ELSE <<"edge", all[i]>>)

\* An operation on a relationship with a count, two node fields and an edge
\* field: four subqueries.
C11_Witness ==
    /\ pc = "read_transpiled"
    /\ operation.entity = "relationship"
    /\ operation.fields = <<"count">>
    /\ Len(operation.nodeFields) = 2
    /\ operation.edgeFields # <<>>
    /\ Len(transpiled.clauses) = 4
    /\ [path |-> <<"edge", "screenTime">>, var |-> 4] \in transpiled.projectionExpr

(***************************************************************************)
(* C12 *)
(***************************************************************************)
\* Positions of a subquery's clauses that carry a WHERE / that sort.
Filtering(i) == {k \in 1..Len(SubqueryBody(i)) : "where" \in DOMAIN SubqueryBody(i)[k]}
Sorting(i) == {k \in 1..Len(SubqueryBody(i)) : "orderBy" \in DOMAIN SubqueryBody(i)[k]}

C13_SortAppliedOnce ==
    (/\ pc = "read_transpiled"
     /\ Len(transpiled.clauses) >= 2
     /\ (operation.sortFields # <<>> \/ operation.pagination # <<>>))
        => Cardinality({i \in 1..Len(transpiled.clauses) : Sorting(i) # {}}) = 1

(***************************************************************************)
(* C16 *)
(***************************************************************************)
\* C16: a top-level operation returns one CALL per subquery, each holding
\* the subquery of one field, while an operation on a relationship returns
\* its subqueries with no CALL around them; the projection map refers to the
\* subqueries by their return variables only.
C16_CallPerTopLevelSubquery ==
    pc = "read_transpiled" =>
        LET calls == {i \in 1..Len(transpiled.clauses) : transpiled.clauses[i].type = "Call"}
        IN  /\ operation.entity = "concrete" =>
                   /\ calls = 1..Len(transpiled.clauses)
                   /\ Len(transpiled.clauses)
                          = Len(operation.fields) + Len(operation.nodeFields)
            /\ operation.entity = "relationship" => calls = {}
            /\ \A i \in 1..Len(transpiled.clauses) :
                   /\ SubqueryBody(i)[1].type = "Match"
                   /\ \E e \in transpiled.projectionExpr : e.var = ReturnVariable(i)

\* A top-level operation with three subqueries.
C16_WitnessTopLevel ==
    /\ pc = "read_transpiled"
    /\ operation.entity = "concrete"
    /\ Len(transpiled.clauses) = 3
    /\ \A i \in 1..3 : transpiled.clauses[i].type = "Call"

(***************************************************************************)
(* C14 *)
(***************************************************************************)
\* Number of Pagination children of an operation.
NumPagination(op) == Len(SelectSeq(getChildren(op), LAMBDA c : c.kind = "pagination"))

\* The statement of the claim: the operation has exactly one Pagination
\* child at all times.
C14_AlwaysOnePagination ==
    pc \in {"read_building", "read_transpiled", "read_failed"}
        => NumPagination(operation) = 1

\* C14: the operation has at most one Pagination child: none until
\* addPagination is called, and from then on exactly one, the one added last.
C14_AtMostOnePagination ==
    [][/\ NumPagination(operation) = 0 \/ NumPagination(operation') = 1
       /\ NumPagination(operation') <= 1
       /\ operation'.pagination # operation.pagination =>
              /\ NumPagination(operation') = 1
              /\ [kind |-> "pagination",
                  node |-> [skip |-> readInput.options.offset,
                            limit |-> getLimit(readInput.options.limit,
                                               readInput.directive)]]
                     \in {getChildren(operation')[k] :
                              k \in 1..Len(getChildren(operation'))}]_vars

\* An operation with fields, filters and a pagination: one Pagination child
\* among the others.
C14_Witness ==
    /\ pc = "read_building"
    /\ operation.pagination # <<>>
    /\ operation.filters # <<>>
    /\ operation.fields # <<>>
    /\ NumPagination(operation) = 1
    /\ Len(getChildren(operation)) >= 3

(***************************************************************************)
(* C15 *)
(***************************************************************************)
\* C15: transpile of an operation whose context has no target throws and
\* neither returns a clause nor changes the projection map; so does
\* transpile of an operation on a relationship whose context has no
\* direction, at the construction of the pattern.  A transpile that returns
\* had a target, and a direction when the operation is on a relationship.
C15_NoTargetNoStatement ==
    LET noTarget == readInput.context.target = <<>>
        noPattern == /\ operation.entity = "relationship"
                     /\ readInput.context.direction = <<>>
    IN  /\ pc = "read_transpiled" => ~noTarget /\ ~noPattern
        /\ pc = "read_failed" =>
               /\ noTarget \/ noPattern
               /\ transpiled.error = IF noTarget THEN "No parent node found!"
                                     ELSE "No valid relationship"
               /\ transpiled.clauses = <<>>
               /\ transpiled.projectionExpr = {}
               /\ operation.aggregationProjectionMap = {}

\* A transpile without a target that failed, with fields to aggregate.
C15_Witness ==
    /\ pc = "read_failed"
    /\ readInput.context.target = <<>>
    /\ operation.fields # <<>>
    /\ operation.nodeFields # <<>>
    /\ transpiled.error = "No parent node found!"

(***************************************************************************)
(* C20 *)
(***************************************************************************)
\* C20: the sort fields of the operation change only by addSort appending
\* the field it is given, and the ORDER BY of every sort clause of a
\* transpiled statement lists the sort fields of the operation in that order.
C20_OrderByIsTheSortsAdded ==
    [][/\ operation'.sortFields # operation.sortFields =>
              \E sort \in {"id", "something"} :
                  operation'.sortFields = Append(operation.sortFields, sort)
       /\ pc' = "read_transpiled" =>
              \A i \in 1..Len(transpiled'.clauses) :
                  \A k \in 1..Len(transpiled'.clauses[i].body) :
                      LET c == transpiled'.clauses[i].body[k]
                      IN  /\ "orderBy" \in DOMAIN c => c.orderBy = operation'.sortFields
                          /\ (k = Len(transpiled'.clauses[i].body) - 1
                              /\ operation'.sortFields # <<>>)
                                 => "orderBy" \in DOMAIN c]_vars

\* Two different sort fields, ordered by in the order they were added.
C20_Witness ==
    /\ pc = "read_transpiled"
    /\ operation.sortFields = <<"something", "id">>
    /\ Len(transpiled.clauses) >= 1
    /\ \E k \in Sorting(1) : SubqueryBody(1)[k].orderBy = <<"something", "id">>

(***************************************************************************)
(* C17 *)
(***************************************************************************)
\* C17: two translations of the same request, one after the other or in
\* turn, build the same statement, the names of the variables included, and
\* it is the statement a translation that runs alone from a fresh heap
\* builds.
C17_SameRequestSameText ==
    (/\ pc = "create_done"
     /\ parked.pc = "create_done"
     /\ parked.createTree = createTree)
        => /\ build(clause) = build(parked.clause)
           /\ build(clause) = build(visitCreate(createTree, RootUnwindVar + 1).clause)

\* Both translations of one request with nested creates are done, and the
\* variables of the two statements are different objects.
C17_Witness ==
    /\ pc = "create_done"
    /\ parked.pc = "create_done"
    /\ parked.createTree = createTree
    /\ NumNested(createTree) = 2
    /\ clause # parked.clause
    /\ rootNode # parked.rootNode

(***************************************************************************)
(* C18 *)
(***************************************************************************)
\* The variables a statement declares: their names once it is built.
RECURSIVE NamesIn(_)
NamesIn(cs) ==
    UNION {(CASE cs[i].type = "Create" -> {cs[i].node}
              [] cs[i].type = "Merge" -> {cs[i].source, cs[i].rel, cs[i].target}
              [] cs[i].type = "Unwind" -> {cs[i].alias}
              [] cs[i].type = "Call" ->
                     {cs[i].innerWith[k] : k \in DOMAIN cs[i].innerWith}
                     \cup NamesIn(cs[i].body)
              [] cs[i].type = "RawCypher" -> NamesIn(cs[i].lines)
              [] cs[i].type \in {"With", "Return"} ->
                     {cs[i].items[k].alias : k \in DOMAIN cs[i].items} \ {NoAlias}
              [] OTHER -> {})
           : i \in DOMAIN cs}

\* C18: whatever the turns of two translations, once both are done the
\* statement each one built is the statement it builds when it runs alone,
\* its root node is a node of its own statement, and the distinct variables
\* of a statement have distinct names.
C18_InterleavedAsAlone ==
    (pc = "create_done" /\ parked.pc = "create_done") =>
        /\ build(clause) = build(visitCreate(createTree, RootUnwindVar + 1).clause)
        /\ Cardinality(NamesIn(build(clause))) = Cardinality(NamesIn(clause))
        /\ rootNode \in NamesIn(clause)
        /\ build(parked.clause)
               = build(visitCreate(parked.createTree, RootUnwindVar + 1).clause)
        /\ Cardinality(NamesIn(build(parked.clause)))
               = Cardinality(NamesIn(parked.clause))
        /\ parked.rootNode \in NamesIn(parked.clause)

\* Two different requests with nested creates are done, and the first one
\* was parked in the middle of its visit: its variables are not consecutive.
C18_Witness ==
    /\ pc = "create_done"
    /\ parked.pc = "create_done"
    /\ parked.createTree # createTree
    /\ NumNested(createTree) >= 1
    /\ NumNested(parked.createTree) >= 1
    /\ clause # visitCreate(createTree, rootNode).clause
    /\ parked.clause # visitCreate(parked.createTree, parked.rootNode).clause

(***************************************************************************)
(* C19 *)
(***************************************************************************)
\* C19: for a relationship to a type without unique fields,
\* createRelationshipFields puts no connectOrCreate field on the field input
\* or the update field input and composes no top-level connect-or-create
\* input, whatever the nested operations; when CONNECT_OR_CREATE is the only
\* nested operation neither of the two inputs is composed; and the call
\* goes on to its end: the relationship field and its filters are composed.
C19_NoConnectOrCreateWithoutUniqueFields ==
    (/\ pc = "schema_done"
     /\ relationshipFields # <<>>
     /\ relationshipFields[1].node.uniqueFields = <<>>) =>
        /\ \A n \in DOMAIN schemaComposer : "connectOrCreate" \notin schemaComposer[n]
        /\ "MovieConnectOrCreateInput" \notin DOMAIN schemaComposer
        /\ relationshipFields[1].nestedOperations = {"CONNECT_OR_CREATE"} =>
               /\ "MovieActorsFieldInput" \notin DOMAIN schemaComposer
               /\ "MovieActorsUpdateFieldInput" \notin DOMAIN schemaComposer
        /\ {"Movie", "MovieWhere", "MovieActorsAggregateInput"} \subseteq DOMAIN schemaComposer
        /\ "actors" \in schemaComposer["Movie"]

\* CONNECT_OR_CREATE with other nested operations to a node without unique
\* fields: the two inputs are composed, with the fields of the others only.
C19_Witness ==
    /\ pc = "schema_done"
    /\ relationshipFields # <<>>
    /\ relationshipFields[1].node.uniqueFields = <<>>
    /\ relationshipFields[1].nestedOperations = {"CONNECT_OR_CREATE", "CREATE", "DELETE"}
    /\ "MovieActorsFieldInput" \in DOMAIN schemaComposer
    /\ "MovieActorsUpdateFieldInput" \in DOMAIN schemaComposer
    /\ schemaComposer["MovieActorsFieldInput"] = {"create"}

(***************************************************************************)
(* C21 *)
(***************************************************************************)
\* The subquery of a NestedCreate node, as it is rendered.
NestedBody(nc) == Rendered(environment[nc.id].clause)[2].body

\* C21: in the subquery of every NestedCreate the child node is written by
\* a CREATE of its label and the edge by the MERGE that directly follows it,
\* of the type of the relationship field, from the parent to the child when
\* the direction of the field is OUT and from the child to the parent when
\* it is IN; the statement has one CREATE per node and one MERGE per
\* NestedCreate.
C21_NodeCreatedEdgeMerged ==
    pc = "create_done" =>
        /\ CountType(Rendered(clause), "Create") = NumNested(createTree) + 1
        /\ CountType(Rendered(clause), "Merge") = NumNested(createTree)
        /\ \A nc \in NestedNodes(createTree) :
               LET body == NestedBody(nc)
                   relationField == RelationFields[nc.relationshipPropertyPath]
                   parent == environment[nc.id].parentVar
                   creates == {k \in 1..Len(body) : body[k].type = "Create"}
               IN  /\ Cardinality(creates) = 1
                   /\ \A k \in creates :
                          /\ body[k].labels = <<nc.node>>
                          /\ body[k].node # parent
                          /\ body[k + 1].type = "Merge"
                          /\ body[k + 1].relType = relationField.type
                          /\ body[k + 1].rel \notin {parent, body[k].node}
                          /\ relationField.direction = "OUT" =>
                                 /\ body[k + 1].source = parent
                                 /\ body[k + 1].target = body[k].node
                          /\ relationField.direction = "IN" =>
                                 /\ body[k + 1].source = body[k].node
                                 /\ body[k + 1].target = parent

\* A Movie created with actors (direction IN) and a studio (direction OUT).
C21_Witness ==
    /\ pc = "create_done"
    /\ createTree.node = "Movie"
    /\ Len(createTree.children) = 2
    /\ {createTree.children[i].relationshipPropertyPath : i \in 1..2} = {"actors", "studio"}
    /\ CountType(Rendered(clause), "Merge") = 2

(***************************************************************************)
(* C22 *)
(***************************************************************************)
\* The clauses of the subquery of the top-level Create, as rendered.
RootBody == Rendered(clause)[1].body

\* Positions of the checks in a rendered subquery: the validation of the
\* relationships and the authorization assertions.
ValidationAt(body) == {k \in 1..Len(body) : body[k].type = "RelationshipValidation"}
AuthorizationAt(body) == {k \in 1..Len(body) : body[k].type = "Validate"}

\* C22: the subquery of the top-level Create has the CREATE with its SET
\* assignments first, then the clauses of the nested creates in child order,
\* then the validation of the relationships followed by the authorization
\* assertions, and the RETURN of the created node last.
C22_CreateChildrenValidationAuthorization ==
    pc = "create_done" =>
        LET body == RootBody
            children == {k \in 1..Len(body) : body[k].type = "Call"}
            checks == ValidationAt(body) \cup AuthorizationAt(body)
        IN  /\ body[1].type = "Create"
            /\ body[Len(body)] = Return(<<WithItem(Var(rootNode), NoAlias)>>)
            /\ Cardinality(children) = Len(createTree.children)
            /\ \A k \in children : k > 1 /\ \A j \in checks : k < j
            /\ \A v \in ValidationAt(body) : \A a \in AuthorizationAt(body) : v < a

(***************************************************************************)
(* C23 *)
(***************************************************************************)
\* C23: the subquery of a NestedCreate creates the child node, merges the
\* edge, runs the validation and authorization checks of the child, and only
\* then holds the clauses of the child's own nested creates; its RETURN is
\* last.
C23_ChecksBeforeNestedChildren ==
    pc = "create_done" =>
        \A nc \in NestedNodes(createTree) :
            LET body == NestedBody(nc)
                children == {k \in 1..Len(body) : body[k].type = "Call"}
                checks == ValidationAt(body) \cup AuthorizationAt(body)
            IN  /\ body[4].type = "Create"
                /\ body[5].type = "Merge"
                /\ body[Len(body)].type = "Return"
                /\ Cardinality(children) = Len(nc.children)
                /\ \A j \in checks : j > 5 /\ \A k \in children : j < k

(***************************************************************************)
(* C24 *)
(***************************************************************************)
\* The variables an expression refers to.
RECURSIVE ExprRefs(_)
ExprRefs(x) ==
    CASE x.kind \in {"var", "property", "rule"} -> {x.var}
      [] x.kind = "listComprehension" -> {x.var} \cup ExprRefs(x.list) \cup ExprRefs(x.map)
      [] x.kind \in {"function", "not", "and", "or", "isNull"} ->
             UNION {ExprRefs(x.args[i]) : i \in DOMAIN x.args}
      [] OTHER -> {}

\* The variables the clauses of a rendered statement refer to, those of
\* its subqueries included.
RECURSIVE RefsIn(_)
RefsIn(cs) ==
    UNION {LET c == cs[i]
               setRefs == UNION {ExprRefs(c.set[k].target) \cup ExprRefs(c.set[k].value)
                                 : k \in DOMAIN c.set}
           IN  CASE c.type \in {"With", "Return"} ->
                        UNION {ExprRefs(c.items[k].expr) \cup ({c.items[k].alias} \ {NoAlias})
                               : k \in DOMAIN c.items}
                 [] c.type = "Unwind" -> ExprRefs(c.expr) \cup {c.alias}
                 [] c.type = "Create" -> {c.node} \cup setRefs
                 [] c.type = "Merge" -> {c.source, c.rel, c.target} \cup setRefs
                 [] c.type = "Call" ->
                        {c.innerWith[k] : k \in DOMAIN c.innerWith} \cup RefsIn(c.body)
                 [] c.type = "Validate" -> ExprRefs(c.predicate)
                 [] c.type = "RelationshipValidation" -> {c.node}
                 [] OTHER -> {}
           : i \in DOMAIN cs}

\* A rendered statement without the subquery that has the given body.
RECURSIVE Without(_, _)
Without(cs, body) ==
    [i \in DOMAIN cs |->
        IF cs[i].type # "Call" THEN cs[i]
        ELSE IF cs[i].body = body THEN [cs[i] EXCEPT !.body = <<>>]
        ELSE [cs[i] EXCEPT !.body = Without(@, body)]]

\* The variables the subquery of a NestedCreate introduces itself: the
\* item of the UNWIND, the node and edge payloads, the created node, the
\* merged relationship and the returned placeholder.
Introduced(body) ==
    {body[2].alias, body[3].items[1].alias, body[3].items[2].alias, body[4].node,
     body[5].rel, body[Len(body)].items[1].alias}

\* C24: the subquery of every NestedCreate starts by importing the parent
\* node variable and the parent payload variable and refers to no other
\* variable from outside; the variables it introduces (UNWIND item, node
\* and edge payload, created node, merged relationship, and those of its
\* descendants) are referred to nowhere outside it; it returns one fresh
\* placeholder that nothing else refers to.
C24_SubqueryVariablesStayInside ==
    pc = "create_done" =>
        \A nc \in NestedNodes(createTree) :
            LET body == NestedBody(nc)
                entry == environment[nc.id]
                imported == {entry.parentVar, entry.unwindVar}
                outside == RefsIn(Without(Rendered(clause), body))
                placeholder == body[Len(body)].items[1].alias
            IN  /\ body[1] = With(<<WithItem(Var(entry.parentVar), NoAlias),
                                    WithItem(Var(entry.unwindVar), NoAlias)>>)
                /\ Cardinality(Introduced(body)) = 6
                /\ Introduced(body) \cap imported = {}
                /\ (RefsIn(body) \ imported) \cap outside = {}
                /\ body[Len(body)].type = "Return"
                /\ Len(body[Len(body)].items) = 1
                /\ ExprRefs(body[Len(body)].items[1].expr) = {}
                /\ placeholder \notin RefsIn(SubSeq(body, 1, Len(body) - 1))

\* Two sibling NestedCreates, one of them with edge properties and a list
\* of points (a list comprehension variable).
C24_Witness ==
    /\ pc = "create_done"
    /\ Len(createTree.children) = 2
    /\ \E i \in 1..2 : /\ createTree.children[i].edgeProperties # <<>>
                       /\ "spots" \in {createTree.children[i].nodeProperties[k] :
                                          k \in DOMAIN createTree.children[i].nodeProperties}
    /\ \A i \in 1..2 : NestedBody(createTree.children[i])[1].type = "With"

(***************************************************************************)
(* C25 *)
(***************************************************************************)
\* What a finished visit leaves: an entry with a clause for every
\* NestedCreate and for no other id; every node holds the subqueries of its
\* children, one per child in child order; the entry of a child has the
\* payload variable of its parent as unwind variable and the node its parent
\* created as parent variable.
VisitedOnceInOrder ==
    LET nested == NestedNodes(createTree)
        \* the subqueries a rendered body holds, in order
        callsOf(body) == SelectSeq(body, LAMBDA c : c.type = "Call")
        ChildrenOf(p, body, payload, created) ==
            /\ Len(callsOf(body)) = Len(p.children)
            /\ \A i \in 1..Len(p.children) :
                   /\ callsOf(body)[i].body = NestedBody(p.children[i])
                   /\ environment[p.children[i].id].unwindVar = payload
                   /\ environment[p.children[i].id].parentVar = created
    IN  /\ DOMAIN environment = {nc.id : nc \in nested}
        /\ \A nc \in nested :
               /\ Len(environment[nc.id].clause) = 2
               /\ environment[nc.id].clause[2].type = "Call"
               /\ ChildrenOf(nc, NestedBody(nc), NestedBody(nc)[3].items[1].alias,
                             NestedBody(nc)[4].node)
        /\ ChildrenOf(createTree, RootBody, RootUnwindVar, rootNode)

\* C25: a NestedCreate is visited when no entry of the environment has its
\* id yet, and the entry with its unwind and parent variable is registered
\* when its visit starts; when the visit of the tree is over every
\* NestedCreate has been visited and its entry holds its clause, and every
\* node has received the clauses of its children, one per child in child
\* order, each child with the parent's payload variable as unwind variable
\* and the node the parent created as parent variable.
C25_EveryNestedCreateVisitedOnce ==
    [][/\ Len(stack') = Len(stack) + 1 /\ stack # <<>> =>
              LET visited == stack'[Len(stack')].ast
              IN  /\ visited.id \notin DOMAIN environment
                  /\ visited.id \in DOMAIN environment'
                  /\ environment'[visited.id].unwindVar = stack'[Len(stack')].unwindVar
                  /\ environment'[visited.id].parentVar = stack'[Len(stack')].parentVar
                  /\ environment'[visited.id].clause = <<>>
       /\ Len(stack') = Len(stack) - 1 /\ stack' # <<>> =>
              environment'[stack[Len(stack)].ast.id].clause # <<>>
       /\ pc' = "create_done" => VisitedOnceInOrder']_vars

\* A finished visit of a tree whose root has two children.
C25_Witness ==
    /\ pc = "create_done"
    /\ Len(createTree.children) = 2
    /\ Cardinality(DOMAIN environment) = 2
    /\ VisitedOnceInOrder

(***************************************************************************)
(* C26 *)
(***************************************************************************)
\* C26: for every NestedCreate over a relationship whose properties entity
\* has autogenerated fields, the MERGE of the edge sets each of them, with
\* or without explicit edge properties in the input.
C26_EdgeAutogeneratedAlwaysSet ==
    pc = "create_done" =>
        \A nc \in NestedNodes(createTree) :
            LET edge == RelationFields[nc.relationshipPropertyPath].properties
                merge == NestedBody(nc)[5]
            IN  edge # "" =>
                    \A i \in 1..Len(getAutoGeneratedFields(edge, merge.rel)) :
                        \E k \in 1..Len(merge.set) :
                            merge.set[k] = getAutoGeneratedFields(edge, merge.rel)[i]

(***************************************************************************)
(* C27 *)
(***************************************************************************)
\* The field-authorization clauses of a subquery body: the raw clauses
\* whose assertion is over `value IS NULL OR rule` terms.
FieldAuthClauses(body) ==
    SelectSeq(body, LAMBDA c : /\ c.type = "RawCypher"
                               /\ c.lines # <<>>
                               /\ c.lines[2].type = "Validate"
                               /\ c.lines[2].predicate.args[1].kind \in {"or", "and"})

\* The fields whose rules an assertion NOT(...) mentions.
RuleEntities(predicate) ==
    LET x == predicate.args[1]
    IN  IF x.kind = "or" THEN {x.args[2].entity}
        ELSE {x.args[i].args[2].entity : i \in 1..Len(x.args)}

\* The supplied properties of a node that carry a field-level rule.
SuppliedRuleFields(ast) ==
    LET fields == Elements[ast.node].fields
    IN  {fields[j].fieldName : j \in {i \in 1..Len(fields) :
             /\ fields[i].kind = "primitive"
             /\ fields[i].auth = "rule"
             /\ \E k \in 1..Len(ast.nodeProperties) :
                    ast.nodeProperties[k] = fields[i].fieldName}}

FieldAuthComplete(ast, body) ==
    SuppliedRuleFields(ast) # {} =>
        /\ Len(FieldAuthClauses(body)) = 1
        /\ RuleEntities(FieldAuthClauses(body)[1].lines[2].predicate) = SuppliedRuleFields(ast)
        /\ FieldAuthClauses(body)[1].params = SuppliedRuleFields(ast)

\* C27: when k >= 1 supplied properties carry field-level rules, the field
\* authorization clause asserts all k rules and returns the parameters of
\* all k rules; properties not supplied contribute no rule.
C27_FieldRulesAndParametersComplete ==
    pc = "create_done" =>
        /\ FieldAuthComplete(createTree, clause[1].body)
        /\ \A nc \in NestedNodes(createTree) :
               FieldAuthComplete(nc, environment[nc.id].clause[2].body)

(***************************************************************************)
(* C28 *)
(***************************************************************************)
\* The required variables of the leaf predicates of a filter, through its
\* AND/OR lists, each occurrence once, in the order of the entries.
RECURSIVE LeafVariables(_), ListVariables(_)
LeafVariables(filter) ==
    IF filter = <<>> THEN <<>>
    ELSE (IF isWhereOperator(Head(filter).key)
          THEN ListVariables(Head(filter).list)
          ELSE createPropertyWhere(Head(filter).key, Head(filter).list).requiredVariables)
         \o LeafVariables(Tail(filter))

ListVariables(list) ==
    IF list = <<>> THEN <<>>
    ELSE LeafVariables(Head(list)) \o ListVariables(Tail(list))

\* C28: the required variables createWherePredicate returns are those of
\* its leaf predicates, each occurrence listed once, at any depth of
\* AND/OR.
C28_RequiredVariablesListedOnce ==
    pc = "where_done" => whereResult.requiredVariables = LeafVariables(whereInput)

(***************************************************************************)
(* C29 *)
(***************************************************************************)
\* The members of a list yield no predicate: the list is empty, or each
\* member is an empty filter or holds only such logical operators.
RECURSIVE NoPredicate(_)
NoPredicate(list) ==
    \A i \in 1..Len(list) :
        \A j \in 1..Len(list[i]) :
            isWhereOperator(list[i][j].key) /\ NoPredicate(list[i][j].list)

\* The filter without its i-th entry.
WithoutEntry(filter, i) ==
    SubSeq(filter, 1, i - 1) \o SubSeq(filter, i + 1, Len(filter))

\* C29: an AND/OR whose members yield no predicate contributes nothing:
\* the result is that of the filter without this key.
C29_EmptyLogicalOperatorContributesNothing ==
    pc = "where_done" =>
        \A i \in 1..Len(whereInput) :
            (isWhereOperator(whereInput[i].key) /\ NoPredicate(whereInput[i].list))
                => whereResult = createWherePredicate(WithoutEntry(whereInput, i))

C29_Witness ==
    /\ pc = "where_done"
    /\ \E i, j, k \in 1..Len(whereInput) :
          /\ whereInput[i].key = "AND" /\ whereInput[i].list = <<>>
          /\ whereInput[j].key = "OR" /\ whereInput[j].list = << <<>> >>
          /\ whereInput[k].key = "likesAggregate"
    /\ whereResult.predicate = Leaf("likesAggregate")
    /\ whereResult.requiredVariables = <<"v_likes">>

(***************************************************************************)
(* C30 *)
(***************************************************************************)
\* A field that has a reserved name or one of the forbidden directives.
Offending(field) ==
    \/ field.name \in {"node", "cursor"}
    \/ /\ field.hasDirectives
       /\ \E k \in 1..Len(field.directives) :
              field.directives[k] \in {"authorization", "authentication",
                                       "subscriptionsAuthorization", "relationship",
                                       "cypher"}

\* The errors reported for the i-th directive occurrence.
ReportedFor(i) == SelectSeq(reported, LAMBDA e : e.nodes[1] = i)

\* C30: for a visited @relationshipProperties occurrence on an interface an
\* error is reported exactly when some field is offending; there is at most
\* one error for an occurrence, and its path ends at the first offending
\* field; nothing is reported for a definition that is not an interface.
C30_OneErrorAtFirstOffendingField ==
    \A i \in 1..directivesVisited :
        LET occ == document[i]
            fields == occ.traversedDef[1].fields
            first == CHOOSE k \in 1..Len(fields) :
                         Offending(fields[k]) /\ \A j \in 1..(k - 1) : ~Offending(fields[j])
        IN  /\ Len(ReportedFor(i)) <= 1
            /\ (occ.name = "relationshipProperties" /\ occ.traversedDef # <<>>)
                   => IF occ.traversedDef[1].kind = "InterfaceTypeDefinition"
                      THEN /\ Len(ReportedFor(i)) = 1
                                  <=> \E k \in 1..Len(fields) : Offending(fields[k])
                           /\ Len(ReportedFor(i)) = 1
                                  => ReportedFor(i)[1].path
                                         = <<occ.traversedDef[1].name, fields[first].name>>
                      ELSE ReportedFor(i) = <<>>

C30_Witness ==
    /\ pc = "validation_done"
    /\ Len(reported) = 2
    /\ \E i \in 1..Len(document) :
          /\ document[i].traversedDef # <<>>
          /\ document[i].traversedDef[1].name = "ActedIn"
          /\ Len(document[i].traversedDef[1].fields) = 2
          /\ ~Offending(document[i].traversedDef[1].fields[1])
          /\ Offending(document[i].traversedDef[1].fields[2])
          /\ ReportedFor(i) # <<>>
          /\ ReportedFor(i)[1].path = <<"ActedIn", "roles">>

====
